---- MODULE Spec2Model ----
(***************************************************************************)
(* State-machine model of rsync's ACL transfer code (acls.c): the          *)
(* normalized rsync_acl value, the mode projection, the per-type index     *)
(* tables with their cursor-biased lookup, the wire encoding and decoding  *)
(* of ACL records, and the apply step set_acl.                             *)
(*                                                                         *)
(* The sender and the receiver are two processes.  Each has its own copy   *)
(* of the globals access_acl_list / default_acl_list and of the static     *)
(* cursors of find_matching_rsync_acl; they share only the byte stream.    *)
(***************************************************************************)
EXTENDS Integers, Sequences, FiniteSets, TLC

(* ------------------------------------------------------------------ *)
(* Bounds of the model                                                 *)
(* ------------------------------------------------------------------ *)
MaxFiles == 3
MaxSends == 4
MaxCaches == 4
MaxFeeds == 2
MaxApplyFiles == 2
MaxApplies == 2
MaxIdPasses == 1
MaxLifeFiles == 2
MaxLifeCaches == 1
MaxNoopFiles == 2

(* ------------------------------------------------------------------ *)
(* Program constants                                                   *)
(* ------------------------------------------------------------------ *)
XMIT_USER_OBJ == 1
XMIT_GROUP_OBJ == 2
XMIT_MASK_OBJ == 4
XMIT_OTHER_OBJ == 8
XMIT_NAME_LIST == 16
NO_ENTRY == 128
XFLAG_NAME_FOLLOWS == 1
XFLAG_NAME_IS_USER == 2
(* lib/sysacls.h: the rwx bits of an entry *)
SMB_ACL_VALID_NAME_BITS == 7
SMB_ACL_VALID_OBJ_BITS == 7
(* sys/stat.h and rsync.h: the mode bits *)
S_ISUID == 2048
S_ISGID == 1024
S_ISVTX == 512
ACCESSPERMS == 511
CHMOD_BITS == 4095
(* sizes of the two item types, in pointer-aligned units:                 *)
(* rsync_acl = {names.idas, names.count, the four uchar slots},            *)
(* acl_duo   = {rsync_acl, sacl}                                           *)
SizeofRsyncAcl == 3
SizeofAclDuo == 4

(* ------------------------------------------------------------------ *)
(* Fixed-width integer arithmetic                                      *)
(* ------------------------------------------------------------------ *)
RECURSIVE BitAnd(_, _)
BitAnd(a, b) ==
    IF a = 0 \/ b = 0 THEN 0
    ELSE (a % 2) * (b % 2) + 2 * BitAnd(a \div 2, b \div 2)

RECURSIVE BitOr(_, _)
BitOr(a, b) ==
    IF a = 0 THEN b
    ELSE IF b = 0 THEN a
    ELSE (IF (a % 2) + (b % 2) > 0 THEN 1 ELSE 0) + 2 * BitOr(a \div 2, b \div 2)

RECURSIVE BitXor(_, _)
BitXor(a, b) ==
    IF a = 0 THEN b
    ELSE IF b = 0 THEN a
    ELSE (((a % 2) + (b % 2)) % 2) + 2 * BitXor(a \div 2, b \div 2)

(* x & b as a test, b a single bit *)
HasBit(x, b) == (x \div b) % 2 = 1

(* A uint32 is the record of its two 16-bit halves; an int is an int32. *)
Half == 65536
U32(hi, lo) == [hi |-> hi, lo |-> lo]
(* conversion of an int32 to uint32 *)
ToU32(x) == [hi |-> ((x - (x % Half)) \div Half) % Half, lo |-> x % Half]
(* conversion of a uint32 to int32 *)
ToI32(w) == (IF w.hi >= 32768 THEN w.hi - Half ELSE w.hi) * Half + w.lo
And32(a, b) == [hi |-> BitAnd(a.hi, b.hi), lo |-> BitAnd(a.lo, b.lo)]
Or32(a, b) == [hi |-> BitOr(a.hi, b.hi), lo |-> BitOr(a.lo, b.lo)]
Not32(a) == [hi |-> (Half - 1) - a.hi, lo |-> (Half - 1) - a.lo]
(* w << 2 and w >> 2 on a uint32 *)
Shl2(w) == [hi |-> (w.hi * 4 + ((w.lo * 4) \div Half)) % Half, lo |-> (w.lo * 4) % Half]
Shr2(w) == [hi |-> w.hi \div 4, lo |-> (w.lo \div 4) + (w.hi % 4) * 16384]
(* truncation of a uint32 to uchar *)
ToUchar(w) == w.lo % 256

(* 1u << 31 *)
NAME_IS_USER == U32(32768, 0)
IsUser(access) == And32(access, NAME_IS_USER) # U32(0, 0)

(* ------------------------------------------------------------------ *)
(* rsync_acl values                                                    *)
(* ------------------------------------------------------------------ *)
empty_rsync_acl ==
    [names |-> << >>, user_obj |-> NO_ENTRY, group_obj |-> NO_ENTRY,
     mask_obj |-> NO_ENTRY, other_obj |-> NO_ENTRY]

(* a name-list entry: the id (the int32 with the bits of the id_t) and *)
(* the uint32 access word (3 permission bits, NAME_IS_USER in bit 31)  *)
IdAccess(id, perm, is_user) ==
    [id |-> id, access |-> IF is_user THEN Or32(U32(0, perm), NAME_IS_USER) ELSE U32(0, perm)]

rsync_acl_get_perms(racl) ==
    racl.user_obj * 64
    + ((IF racl.mask_obj # NO_ENTRY THEN racl.mask_obj ELSE racl.group_obj) * 8)
    + racl.other_obj

(* the stripping that drops the mask only when it equals group_obj *)
rsync_acl_strip_perms_keeps_mask(racl) ==
    [racl EXCEPT
       !.user_obj = NO_ENTRY,
       !.group_obj = IF racl.mask_obj = NO_ENTRY THEN NO_ENTRY
                     ELSE IF racl.group_obj = racl.mask_obj THEN NO_ENTRY
                     ELSE racl.group_obj,
       !.mask_obj = IF racl.mask_obj = racl.group_obj THEN NO_ENTRY ELSE racl.mask_obj,
       !.other_obj = NO_ENTRY]

(* the stripping that drops group_obj whether or not it equals the mask *)
rsync_acl_strip_perms_drops_group(racl) ==
    [racl EXCEPT
       !.user_obj = NO_ENTRY,
       !.group_obj = NO_ENTRY,
       !.mask_obj = NO_ENTRY,
       !.other_obj = NO_ENTRY]

rsync_acl_strip_perms(racl) ==
    [racl EXCEPT
       !.user_obj = NO_ENTRY,
       !.group_obj = IF racl.mask_obj = NO_ENTRY THEN NO_ENTRY
                     ELSE IF racl.group_obj = racl.mask_obj THEN NO_ENTRY
                     ELSE racl.group_obj,
       !.mask_obj = NO_ENTRY,
       !.other_obj = NO_ENTRY]

(* the faking that fills the mask from the group bits as well *)
rsync_acl_fake_perms_with_mask(racl, mode) ==
    [racl EXCEPT
       !.user_obj = (mode \div 64) % 8,
       !.group_obj = (mode \div 8) % 8,
       !.mask_obj = (mode \div 8) % 8,
       !.other_obj = mode % 8]

rsync_acl_fake_perms(racl, mode) ==
    [racl EXCEPT
       !.user_obj = (mode \div 64) % 8,
       !.group_obj = (mode \div 8) % 8,
       !.other_obj = mode % 8]

RECURSIVE IdaLoop(_, _, _)
IdaLoop(ida1, ida2, k) ==
    IF k > Len(ida1) THEN TRUE
    ELSE IF ida1[k].access # ida2[k].access \/ ida1[k].id # ida2[k].id THEN FALSE
    ELSE IdaLoop(ida1, ida2, k + 1)

ida_entries_equal(ial1, ial2) ==
    IF Len(ial1) # Len(ial2) THEN FALSE ELSE IdaLoop(ial1, ial2, 1)

rsync_acl_equal(racl1, racl2) ==
    /\ racl1.user_obj = racl2.user_obj
    /\ racl1.group_obj = racl2.group_obj
    /\ racl1.mask_obj = racl2.mask_obj
    /\ racl1.other_obj = racl2.other_obj
    /\ ida_entries_equal(racl1.names, racl2.names)

(* the comparison taking the mode's group bits for an absent group slot *)
(* of either argument                                                   *)
rsync_acl_equal_enough_either_side(racl1, racl2, m) ==
    IF BitAnd(BitXor(racl1.mask_obj, racl2.mask_obj), NO_ENTRY) # 0 THEN FALSE
    ELSE IF racl1.mask_obj # NO_ENTRY
            /\ racl1.group_obj # racl2.group_obj
            /\ ~(racl2.group_obj = NO_ENTRY /\ racl1.group_obj = (m \div 8) % 8)
            /\ ~(racl1.group_obj = NO_ENTRY /\ racl2.group_obj = (m \div 8) % 8)
         THEN FALSE
    ELSE ida_entries_equal(racl1.names, racl2.names)

rsync_acl_equal_enough(racl1, racl2, m) ==
    IF BitAnd(BitXor(racl1.mask_obj, racl2.mask_obj), NO_ENTRY) # 0 THEN FALSE
    ELSE IF racl1.mask_obj # NO_ENTRY
            /\ (IF racl2.group_obj = NO_ENTRY
                THEN racl1.group_obj # (m \div 8) % 8
                ELSE racl1.group_obj # racl2.group_obj)
         THEN FALSE
    ELSE ida_entries_equal(racl1.names, racl2.names)

(* ------------------------------------------------------------------ *)
(* Item lists and the lookup find_matching_rsync_acl                   *)
(*                                                                     *)
(* An item_list is an array of items of the size EXPAND_ITEM_LIST was  *)
(* called with: rsync_acl items on the sender (send_rsync_acl), acl_duo *)
(* items on the receiver (recv_rsync_acl, cache_rsync_acl).            *)
(* find_matching_rsync_acl indexes the array as "rsync_acl *base", so  *)
(* base + i is the memory at i * sizeof(rsync_acl) whatever the item   *)
(* size is.  The array is modelled as the sequence of its aligned      *)
(* units; unit g (from 0) of a list of items of size sz is field       *)
(* g % sz of item g \div sz: 0 names.idas, 1 names.count, 2 the four   *)
(* slots, 3 sacl.                                                      *)
(* ------------------------------------------------------------------ *)
ItemRacl(item, sz) == IF sz = SizeofAclDuo THEN item.racl ELSE item

UnitItem(list, sz, g) == list[(g \div sz) + 1]
UnitKind(sz, g) ==
    CASE g % sz = 0 -> "idas"
      [] g % sz = 1 -> "count"
      [] g % sz = 2 -> "objs"
      [] OTHER -> "sacl"

SlotBytes(racl) == <<racl.user_obj, racl.group_obj, racl.mask_obj, racl.other_obj>>

(* the four bytes of an int, in either byte order *)
IntBytes(n) == { <<n % 256, (n \div 256) % 256, 0, 0>>, <<0, 0, (n \div 256) % 256, n % 256>> }
(* the int made of four bytes, in either byte order *)
BytesInts(b) ==
    { ToI32(U32(b[3] + 256 * b[4], b[1] + 256 * b[2])),
      ToI32(U32(b[2] + 256 * b[1], b[4] + 256 * b[3])) }

(* Whether a unit holds the null pointer (all bits zero). *)
UnitIsNullPtr(list, sz, g) ==
    IF UnitKind(sz, g) = "idas" THEN ItemRacl(UnitItem(list, sz, g), sz).names = << >>
    ELSE IF UnitKind(sz, g) = "sacl" THEN UnitItem(list, sz, g).sacl.st = "NULL"
    ELSE FALSE

(* The possible results of comparing the four slot bytes read from unit g *)
(* with the slots of racl.  The bytes of a non-null pointer are not       *)
(* determined by the program.                                             *)
UnitObjsMatch(list, sz, g, racl) ==
    LET k == UnitKind(sz, g)
        it == ItemRacl(UnitItem(list, sz, g), sz)
    IN  IF k = "objs" THEN { SlotBytes(it) = SlotBytes(racl) }
        ELSE IF k = "count" THEN { b = SlotBytes(racl) : b \in IntBytes(Len(it.names)) }
        ELSE IF UnitIsNullPtr(list, sz, g) THEN { SlotBytes(racl) = <<0, 0, 0, 0>> }
        ELSE BOOLEAN

(* The possible results of comparing the int read from unit g with n. *)
UnitCountMatch(list, sz, g, n) ==
    LET k == UnitKind(sz, g)
        it == ItemRacl(UnitItem(list, sz, g), sz)
    IN  IF k = "count" THEN { Len(it.names) = n }
        ELSE IF k = "objs" THEN { v = n : v \in BytesInts(SlotBytes(it)) }
        ELSE IF UnitIsNullPtr(list, sz, g) THEN { n = 0 }
        ELSE BOOLEAN

(* rsync_acl_equal(base + i, racl): the set of its possible outcomes,  *)
(* "eq", "ne" or "segv".  When unit 3i is a names.idas field the three *)
(* units are one item and the outcome is that of rsync_acl_equal on    *)
(* it; otherwise the fields are other items' bytes, and following the  *)
(* idas pointer read there is undefined.                               *)
ViewEqual(list, sz, i, racl) ==
    LET g  == i * SizeofRsyncAcl
        om == UnitObjsMatch(list, sz, g + 2, racl)
        cm == UnitCountMatch(list, sz, g + 1, Len(racl.names))
        deref ==
            IF racl.names = << >> THEN {"eq"}
            ELSE IF UnitKind(sz, g) = "idas"
            THEN { IF IdaLoop(ItemRacl(UnitItem(list, sz, g), sz).names, racl.names, 1)
                   THEN "eq" ELSE "ne" }
            ELSE {"eq", "ne", "segv"}
    IN  (IF FALSE \in om THEN {"ne"} ELSE {})
        \cup (IF TRUE \in om /\ FALSE \in cm THEN {"ne"} ELSE {})
        \cup (IF TRUE \in om /\ TRUE \in cm THEN deref ELSE {})

(* The while loop of find_matching_rsync_acl from cursor m with left   *)
(* comparisons to go: the set of possible results [ndx, match, segv]. *)
RECURSIVE FindLoop(_, _, _, _, _)
FindLoop(racl, list, sz, m, left) ==
    IF left = 0 THEN { [ndx |-> -1, match |-> -1, segv |-> FALSE] }
    ELSE LET o == ViewEqual(list, sz, m, racl)
         IN  (IF "eq" \in o THEN { [ndx |-> m, match |-> m, segv |-> FALSE] } ELSE {})
             \cup (IF "segv" \in o THEN { [ndx |-> -1, match |-> m, segv |-> TRUE] } ELSE {})
             \cup (IF "ne" \in o
                   THEN FindLoop(racl, list, sz,
                                 IF m = 0 THEN Len(list) - 1 ELSE m - 1, left - 1)
                   ELSE {})

(* The lookup without the wrap-around to the end of the list. *)
RECURSIVE FindLoopNoWrap(_, _, _, _)
FindLoopNoWrap(racl, list, sz, m) ==
    IF m < 0 THEN { [ndx |-> -1, match |-> -1, segv |-> FALSE] }
    ELSE LET o == ViewEqual(list, sz, m, racl)
         IN  (IF "eq" \in o THEN { [ndx |-> m, match |-> m, segv |-> FALSE] } ELSE {})
             \cup (IF "segv" \in o THEN { [ndx |-> -1, match |-> m, segv |-> TRUE] } ELSE {})
             \cup (IF "ne" \in o THEN FindLoopNoWrap(racl, list, sz, m - 1) ELSE {})

find_matching_rsync_acl_nowrap(racl, match, list, sz) ==
    FindLoopNoWrap(racl, list, sz, IF match = -1 THEN Len(list) - 1 ELSE match)

(* match is the static cursor of the list's type (access_match or      *)
(* default_match); the result carries its new value.                   *)
find_matching_rsync_acl(racl, match, list, sz) ==
    FindLoop(racl, list, sz, IF match = -1 THEN Len(list) - 1 ELSE match, Len(list))

(* ------------------------------------------------------------------ *)
(* Collaborators outside acls.c                                        *)
(* ------------------------------------------------------------------ *)
(* add_uid / add_gid: the name to transmit for an id, << >> when the   *)
(* id has no name (NULL).  Odd ids have a one-byte name here.          *)
add_uid(id) == IF id % 2 = 1 THEN <<200 + (id % 50)>> ELSE << >>
add_gid(id) == IF id % 2 = 1 THEN <<100 + (id % 50)>> ELSE << >>
(* match_uid / match_gid: the local id for a received id *)
match_uid(id) == id + 1000
match_gid(id) == id + 2000

S_ISDIR(mode) == (mode \div 4096) % 16 = 4

(* ------------------------------------------------------------------ *)
(* Send functions                                                      *)
(* ------------------------------------------------------------------ *)
(* send_ida_entries sending the access bits without the shift that    *)
(* makes room for the two flag bits.                                   *)
SendIda_noshift(ida, inc_recurse) ==
    LET is_user == IsUser(ida.access)
        xbits0  == And32(ida.access, Not32(NAME_IS_USER))
        xbits   == IF is_user THEN Or32(xbits0, U32(0, XFLAG_NAME_IS_USER)) ELSE xbits0
        name    == IF is_user THEN add_uid(ida.id) ELSE add_gid(ida.id)
    IN  IF inc_recurse /\ name # << >>
        THEN <<ida.id, ToI32(Or32(xbits, U32(0, XFLAG_NAME_FOLLOWS))), Len(name)>> \o name
        ELSE <<ida.id, ToI32(xbits)>>

(* the tokens written for one id_access *)
SendIda(ida, inc_recurse) ==
    LET is_user == IsUser(ida.access)
        xbits0  == Shl2(ida.access)
        xbits   == IF is_user THEN Or32(xbits0, U32(0, XFLAG_NAME_IS_USER)) ELSE xbits0
        name    == IF is_user THEN add_uid(ida.id) ELSE add_gid(ida.id)
    IN  IF inc_recurse /\ name # << >>
        THEN <<ida.id, ToI32(Or32(xbits, U32(0, XFLAG_NAME_FOLLOWS))), Len(name)>> \o name
        ELSE <<ida.id, ToI32(xbits)>>

RECURSIVE SendIdaLoop(_, _, _)
SendIdaLoop(idas, k, inc_recurse) ==
    IF k > Len(idas) THEN << >>
    ELSE SendIda(idas[k], inc_recurse) \o SendIdaLoop(idas, k + 1, inc_recurse)

send_ida_entries(idal, inc_recurse) ==
    <<Len(idal)>> \o SendIdaLoop(idal, 1, inc_recurse)

SendFlags(racl) ==
    (IF racl.user_obj # NO_ENTRY THEN XMIT_USER_OBJ ELSE 0)
    + (IF racl.group_obj # NO_ENTRY THEN XMIT_GROUP_OBJ ELSE 0)
    + (IF racl.mask_obj # NO_ENTRY THEN XMIT_MASK_OBJ ELSE 0)
    + (IF racl.other_obj # NO_ENTRY THEN XMIT_OTHER_OBJ ELSE 0)
    + (IF Len(racl.names) # 0 THEN XMIT_NAME_LIST ELSE 0)

(* the literal ACL data written after the leading 0 *)
SendLiteral(racl, inc_recurse) ==
    LET flags == SendFlags(racl)
    IN  <<flags>>
        \o (IF BitAnd(flags, XMIT_USER_OBJ) # 0 THEN <<racl.user_obj>> ELSE << >>)
        \o (IF BitAnd(flags, XMIT_GROUP_OBJ) # 0 THEN <<racl.group_obj>> ELSE << >>)
        \o (IF BitAnd(flags, XMIT_MASK_OBJ) # 0 THEN <<racl.mask_obj>> ELSE << >>)
        \o (IF BitAnd(flags, XMIT_OTHER_OBJ) # 0 THEN <<racl.other_obj>> ELSE << >>)
        \o (IF BitAnd(flags, XMIT_NAME_LIST) # 0
            THEN send_ida_entries(racl.names, inc_recurse) ELSE << >>)

(* send_rsync_acl writing the index found instead of the index + 1. *)
send_rsync_acl_zero_based(racl, match, racl_list, inc_recurse) ==
    { [ndx   |-> f.ndx,
       match |-> f.match,
       out   |-> <<IF f.ndx < 0 THEN 0 ELSE f.ndx>>
                 \o (IF f.ndx < 0 THEN SendLiteral(racl, inc_recurse) ELSE << >>),
       list  |-> IF f.ndx < 0 THEN Append(racl_list, racl) ELSE racl_list]
      : f \in { x \in find_matching_rsync_acl(racl, match, racl_list, SizeofRsyncAcl)
                : ~x.segv } }

(* send_rsync_acl on the list racl_list (rsync_acl items) with cursor  *)
(* match: the possible results, each with the tokens written, the new  *)
(* list and the new cursor.                                            *)
send_rsync_acl(racl, match, racl_list, inc_recurse) ==
    { [ndx   |-> f.ndx,
       match |-> f.match,
       out   |-> <<f.ndx + 1>>
                 \o (IF f.ndx < 0 THEN SendLiteral(racl, inc_recurse) ELSE << >>),
       list  |-> IF f.ndx < 0 THEN Append(racl_list, racl) ELSE racl_list]
      : f \in { x \in find_matching_rsync_acl(racl, match, racl_list, SizeofRsyncAcl)
                : ~x.segv } }

(* ------------------------------------------------------------------ *)
(* Receive functions                                                   *)
(*                                                                     *)
(* The decoders work on the unread tokens of the stream.  A parse      *)
(* state is [st, pos, racl, mask, reads]: st is "ok" while decoding    *)
(* goes on,                                                            *)
(* "short" when the stream holds no token at pos (the read blocks),    *)
(* "RERR_STREAMIO" after exit_cleanup(RERR_STREAMIO) and "RERR_MALLOC" *)
(* after out_of_memory(); pos is the next token to read; reads lists   *)
(* the recv_acl_access calls made, each [is_name, tok].                *)
(* ------------------------------------------------------------------ *)
NullSacl == [st |-> "NULL", user_obj |-> 0, group_obj |-> 0, mask_obj |-> 0, other_obj |-> 0]

(* recv_acl_access without the test of a named entry's bits *)
recv_acl_access_names_unchecked(is_name, tok) ==
    LET access == ToU32(tok)
        flags  == access.lo % 4
        shifted == Shr2(access)
    IN  IF is_name
        THEN [err |-> FALSE,
              access |-> IF BitAnd(flags, XFLAG_NAME_IS_USER) # 0
                         THEN Or32(shifted, NAME_IS_USER) ELSE shifted,
              has_name |-> IF BitAnd(flags, XFLAG_NAME_FOLLOWS) # 0 THEN 1 ELSE 0]
        ELSE IF And32(access, Not32(U32(0, SMB_ACL_VALID_OBJ_BITS))) # U32(0, 0)
             THEN [err |-> TRUE, access |-> access, has_name |-> 0]
             ELSE [err |-> FALSE, access |-> access, has_name |-> 0]

(* recv_acl_access on the token tok; is_name says name_follows_ptr is given *)
recv_acl_access(is_name, tok) ==
    LET access == ToU32(tok)
        flags  == access.lo % 4
        shifted == Shr2(access)
    IN  IF is_name
        THEN IF And32(shifted, Not32(U32(0, SMB_ACL_VALID_NAME_BITS))) # U32(0, 0)
             THEN [err |-> TRUE, access |-> shifted, has_name |-> 0]
             ELSE [err |-> FALSE,
                   access |-> IF BitAnd(flags, XFLAG_NAME_IS_USER) # 0
                              THEN Or32(shifted, NAME_IS_USER) ELSE shifted,
                   has_name |-> IF BitAnd(flags, XFLAG_NAME_FOLLOWS) # 0 THEN 1 ELSE 0]
        ELSE IF And32(access, Not32(U32(0, SMB_ACL_VALID_OBJ_BITS))) # U32(0, 0)
             THEN [err |-> TRUE, access |-> access, has_name |-> 0]
             ELSE [err |-> FALSE, access |-> access, has_name |-> 0]

(* one slot of recv_rsync_acl: "if (flags & bit) racl.field = recv_acl_access(NULL, f)" *)
RecvSlotStore(ps, field, tok, r) ==
    IF r.err
    THEN [ps EXCEPT !.st = "RERR_STREAMIO",
                    !.reads = Append(@, [is_name |-> FALSE, tok |-> tok])]
    ELSE [ps EXCEPT !.pos = @ + 1, !.racl[field] = ToUchar(r.access),
                    !.reads = Append(@, [is_name |-> FALSE, tok |-> tok])]

RecvSlot(ps, stream, flags, bit, field) ==
    IF ps.st # "ok" \/ BitAnd(flags, bit) = 0 THEN ps
    ELSE IF ps.pos > Len(stream) THEN [ps EXCEPT !.st = "short"]
    ELSE RecvSlotStore(ps, field, stream[ps.pos], recv_acl_access(FALSE, stream[ps.pos]))

(* the id stored for an entry, after the id and the access word were read *)
RecvId(id, access, options) ==
    IF IsUser(access)
    THEN IF options.inc_recurse /\ options.am_root /\ ~options.numeric_ids
         THEN match_uid(id) ELSE id
    ELSE IF options.inc_recurse /\ (~options.am_root \/ ~options.numeric_ids)
         THEN match_gid(id) ELSE id

(* the entry stored by one round of the loop of recv_ida_entries, r   *)
(* being what recv_acl_access returned                                *)
RecvIdaEntry(id, r, options) ==
    [id |-> IF r.has_name = 1
            THEN (* recv_user_name / recv_group_name *)
                 IF IsUser(r.access) THEN match_uid(id) ELSE match_gid(id)
            ELSE RecvId(id, r.access, options),
     access |-> r.access]

(* the tokens one round reads: id, access, and the length byte and the *)
(* name when a name follows                                            *)
RecvIdaWidth(r, stream, pos) ==
    IF r.has_name = 0 THEN 2
    ELSE IF pos + 2 > Len(stream) THEN 3
    ELSE 3 + (stream[pos + 2] % 256)

RecvIdaStep(ps, stream, options, r) ==
    IF r.err
    THEN [ps EXCEPT !.st = "RERR_STREAMIO",
                    !.reads = Append(@, [is_name |-> TRUE, tok |-> stream[ps.pos + 1]])]
    ELSE IF ps.pos + RecvIdaWidth(r, stream, ps.pos) - 1 > Len(stream)
    THEN [ps EXCEPT !.st = "short"]
    ELSE [ps EXCEPT
            !.pos = @ + RecvIdaWidth(r, stream, ps.pos),
            !.reads = Append(@, [is_name |-> TRUE, tok |-> stream[ps.pos + 1]]),
            !.racl.names = Append(@, RecvIdaEntry(stream[ps.pos], r, options)),
            !.mask = BitOr(@, ToUchar(r.access))]

(* the for loop of recv_ida_entries with left entries to go *)
RECURSIVE RecvIdaLoop(_, _, _, _)
RecvIdaLoop(ps, stream, options, left) ==
    IF ps.st # "ok" \/ left = 0 THEN ps
    ELSE IF ps.pos + 1 > Len(stream) THEN [ps EXCEPT !.st = "short"]
    ELSE RecvIdaLoop(
           RecvIdaStep(ps, stream, options, recv_acl_access(TRUE, stream[ps.pos + 1])),
           stream, options, left - 1)

(* the mask returned by recv_ida_entries: computed_mask_bits & ~NO_ENTRY *)
RecvIdaResult(done) == [done EXCEPT !.mask = BitAnd(@, 255 - NO_ENTRY)]

(* recv_ida_entries; the value returned is left in the mask field *)
recv_ida_entries(ps, stream, options) ==
    IF ps.pos > Len(stream) THEN [ps EXCEPT !.st = "short"]
    ELSE IF stream[ps.pos] < 0 THEN [ps EXCEPT !.st = "RERR_MALLOC"]
    ELSE RecvIdaResult(RecvIdaLoop([ps EXCEPT !.pos = @ + 1, !.mask = 0],
                                   stream, options, stream[ps.pos]))

(* the fix-up computing the mask without clearing the NO_ENTRY bit *)
RecvMaskFixup_keep_sentinel(racl, computed_mask_bits) ==
    IF Len(racl.names) = 0
    THEN IF racl.mask_obj # NO_ENTRY
         THEN [racl EXCEPT
                 !.group_obj = BitAnd(@, BitOr(racl.mask_obj, NO_ENTRY)),
                 !.mask_obj = NO_ENTRY]
         ELSE racl
    ELSE IF racl.mask_obj = NO_ENTRY
         THEN [racl EXCEPT !.mask_obj = BitOr(computed_mask_bits, racl.group_obj)]
         ELSE racl

(* the fix-up of the mask at the end of recv_rsync_acl *)
RecvMaskFixup(racl, computed_mask_bits) ==
    IF Len(racl.names) = 0
    THEN IF racl.mask_obj # NO_ENTRY
         THEN [racl EXCEPT
                 !.group_obj = BitAnd(@, BitOr(racl.mask_obj, NO_ENTRY)),
                 !.mask_obj = NO_ENTRY]
         ELSE racl
    ELSE IF racl.mask_obj = NO_ENTRY
         THEN [racl EXCEPT
                 !.mask_obj = BitAnd(BitOr(computed_mask_bits, racl.group_obj),
                                     255 - NO_ENTRY)]
         ELSE racl

(* the name list of recv_rsync_acl: "if (flags & XMIT_NAME_LIST) ..." *)
RecvNames(ps, stream, flags, options) ==
    IF ps.st = "ok" /\ BitAnd(flags, XMIT_NAME_LIST) # 0
    THEN recv_ida_entries(ps, stream, options) ELSE ps

(* what a call that read no literal has seen *)
NoLiteral == [flags |-> 0, raw |-> empty_rsync_acl, reads |-> << >>]

(* the end of recv_rsync_acl, ps being the state after the reads; seen *)
(* keeps the flags byte, duo_item->racl before the fix-up of the mask  *)
(* and the recv_acl_access calls                                       *)
RecvFinish(racl_list, stream, flags, ps) ==
    IF ps.st # "ok"
    THEN [st |-> ps.st, ndx |-> -1, list |-> racl_list, rest |-> stream,
          seen |-> [flags |-> flags, raw |-> ps.racl, reads |-> ps.reads]]
    ELSE [st |-> "ok", ndx |-> Len(racl_list),
          list |-> Append(racl_list, [racl |-> RecvMaskFixup(ps.racl, ps.mask),
                                      sacl |-> NullSacl]),
          rest |-> SubSeq(stream, ps.pos, Len(stream)),
          seen |-> [flags |-> flags, raw |-> ps.racl, reads |-> ps.reads]]

(* the reads of a literal: the flags byte is token 2 *)
RecvLiteral(stream, flags, options) ==
    RecvNames(
      RecvSlot(
        RecvSlot(
          RecvSlot(
            RecvSlot([st |-> "ok", pos |-> 3, racl |-> empty_rsync_acl, mask |-> 0,
                      reads |-> << >>],
                     stream, flags, XMIT_USER_OBJ, "user_obj"),
            stream, flags, XMIT_GROUP_OBJ, "group_obj"),
          stream, flags, XMIT_MASK_OBJ, "mask_obj"),
        stream, flags, XMIT_OTHER_OBJ, "other_obj"),
      stream, flags, options)

(* recv_rsync_acl on the list racl_list (acl_duo items) reading the    *)
(* tokens of stream: [st, ndx, list, rest].  After an exit the process *)
(* is gone; ndx is -1 and list is the list before the call.            *)
RecvExit(st, racl_list, stream) ==
    [st |-> st, ndx |-> -1, list |-> racl_list, rest |-> stream, seen |-> NoLiteral]

(* recv_rsync_acl accepting an index one past the end of the list *)
recv_rsync_acl_loose(racl_list, stream, options) ==
    IF Len(stream) = 0 THEN RecvExit("short", racl_list, stream)
    ELSE IF stream[1] < 0 \/ stream[1] > Len(racl_list) + 1
    THEN RecvExit("RERR_STREAMIO", racl_list, stream)
    ELSE IF stream[1] # 0
    THEN [st |-> "ok", ndx |-> stream[1] - 1, list |-> racl_list,
          rest |-> SubSeq(stream, 2, Len(stream)), seen |-> NoLiteral]
    ELSE IF Len(stream) < 2 THEN RecvExit("short", racl_list, stream)
    ELSE RecvFinish(racl_list, stream, stream[2] % 256,
                    RecvLiteral(stream, stream[2] % 256, options))

recv_rsync_acl(racl_list, stream, options) ==
    IF Len(stream) = 0 THEN RecvExit("short", racl_list, stream)
    ELSE IF stream[1] < 0 \/ stream[1] > Len(racl_list)
    THEN RecvExit("RERR_STREAMIO", racl_list, stream)
    ELSE IF stream[1] # 0
    THEN [st |-> "ok", ndx |-> stream[1] - 1, list |-> racl_list,
          rest |-> SubSeq(stream, 2, Len(stream)), seen |-> NoLiteral]
    ELSE IF Len(stream) < 2 THEN RecvExit("short", racl_list, stream)
    ELSE RecvFinish(racl_list, stream, stream[2] % 256,
                    RecvLiteral(stream, stream[2] % 256, options))

(* ------------------------------------------------------------------ *)
(* Cache functions                                                     *)
(* ------------------------------------------------------------------ *)
(* cache_rsync_acl on the list racl_list (acl_duo items); racl is      *)
(* << >> for a NULL pointer.  The set of possible results              *)
(* [ndx, match, list, left, segv]: left is *racl after the call.       *)
(* cache_rsync_acl storing an empty ACL for a NULL candidate *)
cache_rsync_acl_null_as_empty(racl, match, racl_list) ==
    IF racl = << >>
    THEN { [ndx |-> Len(racl_list), match |-> match,
            list |-> Append(racl_list, [racl |-> empty_rsync_acl, sacl |-> NullSacl]),
            left |-> racl, segv |-> FALSE] }
    ELSE { IF f.segv
           THEN [ndx |-> -1, match |-> f.match, list |-> racl_list, left |-> racl,
                 segv |-> TRUE]
           ELSE IF f.ndx = -1
           THEN [ndx |-> Len(racl_list), match |-> f.match,
                 list |-> Append(racl_list, [racl |-> racl[1], sacl |-> NullSacl]),
                 left |-> <<empty_rsync_acl>>, segv |-> FALSE]
           ELSE [ndx |-> f.ndx, match |-> f.match, list |-> racl_list, left |-> racl,
                 segv |-> FALSE]
           : f \in find_matching_rsync_acl(racl[1], match, racl_list, SizeofAclDuo) }

cache_rsync_acl(racl, match, racl_list) ==
    IF racl = << >>
    THEN { [ndx |-> -1, match |-> match, list |-> racl_list, left |-> racl, segv |-> FALSE] }
    ELSE { IF f.segv
           THEN [ndx |-> -1, match |-> f.match, list |-> racl_list, left |-> racl,
                 segv |-> TRUE]
           ELSE IF f.ndx = -1
           THEN [ndx |-> Len(racl_list), match |-> f.match,
                 list |-> Append(racl_list, [racl |-> racl[1], sacl |-> NullSacl]),
                 left |-> <<empty_rsync_acl>>, segv |-> FALSE]
           ELSE [ndx |-> f.ndx, match |-> f.match, list |-> racl_list, left |-> racl,
                 segv |-> FALSE]
           : f \in find_matching_rsync_acl(racl[1], match, racl_list, SizeofAclDuo) }

(* ------------------------------------------------------------------ *)
(* Id conversion                                                       *)
(* ------------------------------------------------------------------ *)
(* the inner loop of match_racl_ids on every entry but with match_uid  *)
(* for users and groups alike                                          *)
MatchIda_all_users(ida) == [ida EXCEPT !.id = match_uid(@)]

(* the inner loop of match_racl_ids for one id_access *)
MatchIda(ida) ==
    [ida EXCEPT !.id = IF IsUser(ida.access) THEN match_uid(@) ELSE match_gid(@)]

(* match_racl_ids on a list of acl_duo items *)
match_racl_ids(racl_list) ==
    [i \in 1..Len(racl_list) |->
        [racl_list[i] EXCEPT !.racl.names = [j \in 1..Len(@) |-> MatchIda(@[j])]]]

(* ------------------------------------------------------------------ *)
(* Apply functions                                                     *)
(*                                                                     *)
(* A native ACL object (SMB_ACL_T) is [st, user_obj, group_obj,        *)
(* mask_obj, other_obj]: st is "NULL" for the null pointer, "live" for *)
(* an object made by sys_acl_init and "freed" for a pointer to an      *)
(* object given to sys_acl_free_acl; the fields are the access bits of *)
(* its entries, mask_obj being NO_ENTRY when it has no mask entry.     *)
(* The named entries of the object are those of the rsync_acl it was   *)
(* packed from.  Each native call can fail.  options carries the       *)
(* option globals and the two build settings.                          *)
(* ------------------------------------------------------------------ *)
FreedSacl == [NullSacl EXCEPT !.st = "freed"]

(* the object pack_smb_acl builds when every call succeeds *)
Packed(racl, options) ==
    [st |-> "live",
     user_obj |-> BitAnd(racl.user_obj, 255 - NO_ENTRY),
     group_obj |-> BitAnd(racl.group_obj, 255 - NO_ENTRY),
     mask_obj |-> IF options.ACLS_NEED_MASK /\ racl.mask_obj = NO_ENTRY
                  THEN BitAnd(racl.group_obj, 255 - NO_ENTRY)
                  ELSE racl.mask_obj,
     other_obj |-> BitAnd(racl.other_obj, 255 - NO_ENTRY)]

(* pack_smb_acl: [ok, sacl], sacl being *smb_acl after the call: the   *)
(* object, NULL when sys_acl_init failed, or the freed object when a   *)
(* later call failed (error_exit)                                      *)
pack_smb_acl(racl, options) ==
    { [ok |-> TRUE, sacl |-> Packed(racl, options)],
      [ok |-> FALSE, sacl |-> NullSacl],
      [ok |-> FALSE, sacl |-> FreedSacl] }

(* mode & ~0077 *)
Clear077(mode) == mode - (mode % 64)

(* change_sacl_perms filling the entries from the target mode as it is *)
SafeMode_unmasked(old_mode, mode, options) == mode

(* the mode change_sacl_perms fills the entries from *)
SafeMode(old_mode, mode, options) ==
    IF S_ISDIR(mode)
    THEN IF options.SMB_ACL_LOSES_SPECIAL_MODE_BITS
         THEN IF HasBit(mode, S_ISVTX) THEN Clear077(mode) ELSE mode
         ELSE IF HasBit(mode, S_ISVTX) /\ ~HasBit(old_mode, S_ISVTX)
              THEN Clear077(mode) ELSE mode
    ELSE IF options.SMB_ACL_LOSES_SPECIAL_MODE_BITS THEN mode
    ELSE IF \/ HasBit(old_mode, S_ISUID) /\ ~HasBit(mode, S_ISUID)
            \/ HasBit(old_mode, S_ISGID) /\ ~HasBit(mode, S_ISGID)
         THEN Clear077(mode) ELSE mode

(* the entries after the loop of change_sacl_perms has handled the    *)
(* first upto of: user_obj, group_obj, mask, other                    *)
ChangeEntries(sacl, racl, mode, upto) ==
    [sacl EXCEPT
       !.user_obj = IF upto >= 1 THEN (mode \div 64) % 8 ELSE @,
       !.group_obj = IF upto >= 2 /\ racl.group_obj = NO_ENTRY
                     THEN (mode \div 8) % 8 ELSE @,
       !.mask_obj = IF upto >= 3 /\ sacl.mask_obj # NO_ENTRY THEN (mode \div 8) % 8 ELSE @,
       !.other_obj = IF upto >= 4 THEN mode % 8 ELSE @]

(* the value change_sacl_perms returns when no call failed *)
ChangedMode(old_mode, mode, options) ==
    LET old == IF /\ options.SMB_ACL_LOSES_SPECIAL_MODE_BITS
                  /\ (old_mode % CHMOD_BITS) \div (ACCESSPERMS + 1) # 0
                  /\ old_mode % (CHMOD_BITS + 1) = mode % (CHMOD_BITS + 1)
               THEN old_mode - (old_mode % (CHMOD_BITS + 1)) + (old_mode % (ACCESSPERMS + 1))
               ELSE old_mode
    IN  (old - (old % (ACCESSPERMS + 1))) + (mode % (ACCESSPERMS + 1))

(* change_sacl_perms: [ok, mode, sacl]; ok is FALSE for (mode_t)~0,   *)
(* returned after a native call failed with some entries rewritten    *)
ChangeSaclPerms(sacl, racl, old_mode, safe, options) ==
    { [ok |-> TRUE, mode |-> ChangedMode(old_mode, safe, options),
       sacl |-> ChangeEntries(sacl, racl, safe, 4)] }
    \cup { [ok |-> FALSE, mode |-> -1, sacl |-> ChangeEntries(sacl, racl, safe, k)]
           : k \in 0..3 }

change_sacl_perms(sacl, racl, old_mode, mode, options) ==
    ChangeSaclPerms(sacl, racl, old_mode, SafeMode(old_mode, mode, options), options)

(* a native call made by set_rsync_acl, and the object given to it *)
Op(op, type, ok, sacl) == [op |-> op, type |-> type, ok |-> ok, acl |-> sacl]

(* set_rsync_acl from sys_acl_set_file on: [ret, sacl, st_mode, ops, crash] *)
SetFile(sacl, type, cur_mode, st_mode, ops) ==
    { [ret |-> 0, sacl |-> sacl,
       st_mode |-> IF type = "access" THEN cur_mode ELSE st_mode,
       ops |-> Append(ops, Op("sys_acl_set_file", type, TRUE, sacl)), crash |-> FALSE],
      [ret |-> -1, sacl |-> sacl, st_mode |-> st_mode,
       ops |-> Append(ops, Op("sys_acl_set_file", type, FALSE, sacl)), crash |-> FALSE] }

(* set_rsync_acl from the call of change_sacl_perms on *)
SetChange(sacl, racl, type, st_mode, mode, options, ops) ==
    IF type = "access"
    THEN UNION { IF c.ok
                 THEN SetFile(c.sacl, type, c.mode, st_mode,
                              Append(ops, Op("change_sacl_perms", type, TRUE, c.sacl)))
                 ELSE { [ret |-> 0, sacl |-> c.sacl, st_mode |-> st_mode,
                         ops |-> Append(ops, Op("change_sacl_perms", type, FALSE, c.sacl)),
                         crash |-> FALSE] }
                 : c \in change_sacl_perms(sacl, racl, st_mode, mode, options) }
    ELSE SetFile(sacl, type, st_mode, st_mode, ops)

(* set_rsync_acl once duo_item->sacl is not NULL.  The native calls   *)
(* on a freed object are undefined: the process faults, or the calls  *)
(* work on the memory as if the object were there.                    *)
SetPacked(sacl, racl, type, st_mode, mode, options, ops) ==
    IF sacl.st = "freed"
    THEN { [ret |-> -1, sacl |-> sacl, st_mode |-> st_mode, ops |-> ops, crash |-> TRUE] }
         \cup { [r EXCEPT !.sacl = FreedSacl]
                : r \in SetChange(sacl, racl, type, st_mode, mode, options, ops) }
    ELSE SetChange(sacl, racl, type, st_mode, mode, options, ops)

(* set_rsync_acl without the branch that deletes the default ACL *)
set_rsync_acl_no_delete(duo_item, type, st_mode, mode, options) ==
    IF duo_item.sacl.st = "NULL"
    THEN UNION { IF p.ok
                 THEN SetPacked(p.sacl, duo_item.racl, type, st_mode, mode, options,
                                << Op("pack_smb_acl", type, TRUE, p.sacl) >>)
                 ELSE { [ret |-> -1, sacl |-> p.sacl, st_mode |-> st_mode,
                         ops |-> << Op("pack_smb_acl", type, FALSE, p.sacl) >>,
                         crash |-> FALSE] }
                 : p \in pack_smb_acl(duo_item.racl, options) }
    ELSE SetPacked(duo_item.sacl, duo_item.racl, type, st_mode, mode, options, << >>)

(* set_rsync_acl building the native object on every call *)
set_rsync_acl_repack(duo_item, type, st_mode, mode, options) ==
    IF type = "default" /\ duo_item.racl.user_obj = NO_ENTRY
    THEN { [ret |-> IF ok THEN 0 ELSE -1, sacl |-> duo_item.sacl, st_mode |-> st_mode,
            ops |-> << Op("sys_acl_delete_def_file", type, ok, NullSacl) >>,
            crash |-> FALSE] : ok \in BOOLEAN }
    ELSE UNION { IF p.ok
                 THEN SetPacked(p.sacl, duo_item.racl, type, st_mode, mode, options,
                                << Op("pack_smb_acl", type, TRUE, p.sacl) >>)
                 ELSE { [ret |-> -1, sacl |-> p.sacl, st_mode |-> st_mode,
                         ops |-> << Op("pack_smb_acl", type, FALSE, p.sacl) >>,
                         crash |-> FALSE] }
                 : p \in pack_smb_acl(duo_item.racl, options) }

set_rsync_acl(duo_item, type, st_mode, mode, options) ==
    IF type = "default" /\ duo_item.racl.user_obj = NO_ENTRY
    THEN { [ret |-> IF ok THEN 0 ELSE -1, sacl |-> duo_item.sacl, st_mode |-> st_mode,
            ops |-> << Op("sys_acl_delete_def_file", type, ok, NullSacl) >>,
            crash |-> FALSE] : ok \in BOOLEAN }
    ELSE IF duo_item.sacl.st = "NULL"
    THEN UNION { IF p.ok
                 THEN SetPacked(p.sacl, duo_item.racl, type, st_mode, mode, options,
                                << Op("pack_smb_acl", type, TRUE, p.sacl) >>)
                 ELSE { [ret |-> -1, sacl |-> p.sacl, st_mode |-> st_mode,
                         ops |-> << Op("pack_smb_acl", type, FALSE, p.sacl) >>,
                         crash |-> FALSE] }
                 : p \in pack_smb_acl(duo_item.racl, options) }
    ELSE SetPacked(duo_item.sacl, duo_item.racl, type, st_mode, mode, options, << >>)

(* "eq" of set_acl; acl is << >> for a NULL sxp->acc_acl or sxp->def_acl *)
SetAclEq(type, acl, racl, mode) ==
    /\ acl # << >>
    /\ IF type = "access" THEN rsync_acl_equal_enough(acl[1], racl, mode)
       ELSE rsync_acl_equal(acl[1], racl)

(* set_acl leaving "unchanged" as it is when the ACL differs *)
SetAclChanged_keeps(type, unchanged) == unchanged

(* "unchanged" of set_acl once the ACL of the type was found to differ *)
SetAclChanged(type, unchanged) ==
    IF type = "access" THEN 0 ELSE IF unchanged > 0 THEN 0 ELSE unchanged

(* the block of set_acl that applies every ACL in range, equal or not *)
SetAclPart_always_apply(type, ndx, list, acl, unchanged, st_mode, mode, write, options) ==
    IF ndx < 0 \/ ndx >= Len(list)
    THEN { [unchanged |-> unchanged, list |-> list, st_mode |-> st_mode, ops |-> << >>,
            crash |-> FALSE] }
    ELSE IF ~write
    THEN { [unchanged |-> SetAclChanged(type, unchanged), list |-> list,
            st_mode |-> st_mode, ops |-> << >>, crash |-> FALSE] }
    ELSE { [unchanged |-> IF r.ret < 0 THEN -1 ELSE SetAclChanged(type, unchanged),
            list |-> [list EXCEPT ![ndx + 1].sacl = r.sacl],
            st_mode |-> r.st_mode, ops |-> r.ops, crash |-> r.crash]
           : r \in set_rsync_acl(list[ndx + 1], type, st_mode, mode, options) }

(* one of the two blocks of set_acl, for the list of the type: the    *)
(* set of [unchanged, list, st_mode, ops, crash]; write is            *)
(* "!dry_run && fname"                                                *)
SetAclPart(type, ndx, list, acl, unchanged, st_mode, mode, write, options) ==
    IF ndx < 0 \/ ndx >= Len(list)
    THEN { [unchanged |-> unchanged, list |-> list, st_mode |-> st_mode, ops |-> << >>,
            crash |-> FALSE] }
    ELSE IF SetAclEq(type, acl, list[ndx + 1].racl, mode)
    THEN { [unchanged |-> unchanged, list |-> list, st_mode |-> st_mode, ops |-> << >>,
            crash |-> FALSE] }
    ELSE IF ~write
    THEN { [unchanged |-> SetAclChanged(type, unchanged), list |-> list,
            st_mode |-> st_mode, ops |-> << >>, crash |-> FALSE] }
    ELSE { [unchanged |-> IF r.ret < 0 THEN -1 ELSE SetAclChanged(type, unchanged),
            list |-> [list EXCEPT ![ndx + 1].sacl = r.sacl],
            st_mode |-> r.st_mode, ops |-> r.ops, crash |-> r.crash]
           : r \in set_rsync_acl(list[ndx + 1], type, st_mode, mode, options) }

(* ------------------------------------------------------------------ *)
(* State                                                               *)
(* ------------------------------------------------------------------ *)
VARIABLES
    opts,       \* the option globals inc_recurse, am_root, numeric_ids
    s_access,   \* sender: access_acl_list (rsync_acl items)
    s_default,  \* sender: default_acl_list (rsync_acl items)
    s_match,    \* sender: access_match, default_match of find_matching_rsync_acl
    wire,       \* the tokens written by the sender and not yet read
    flist,      \* the modes of the file entries sent, in order
    sent,       \* per send_acl call: the file's mode and what was sent for it
    r_access,   \* receiver: access_acl_list (acl_duo items)
    r_default,  \* receiver: default_acl_list (acl_duo items)
    r_match,    \* receiver: access_match, default_match
    r_status,   \* receiver: "run", or the way the process ended
    files,      \* receiver: per received file its mode, F_ACL and F_DIR_DEFACL
    r_calls,    \* receiver: the recv_rsync_acl calls of the last receive_acl
    cached,     \* receiver: per cache_acl call the file's mode and what was cached
    applied,    \* receiver: the last set_acl call, << >> before the first
    id_passes,  \* receiver: the number of match_acl_ids calls made
    eq_call     \* calls of the pure functions: the arguments, then the results;
                \* in SpecNoop the statx values read for the source files, in order

vars == <<opts, s_access, s_default, s_match, wire, flist, sent,
          r_access, r_default, r_match, r_status, files, r_calls, cached,
          applied, id_passes, eq_call>>

sender_vars == <<s_access, s_default, s_match, sent>>
receiver_vars == <<r_access, r_default, r_match, r_status, files, r_calls, cached, applied,
                   id_passes>>

(* ------------------------------------------------------------------ *)
(* Inputs                                                              *)
(* ------------------------------------------------------------------ *)
Racl(u, g, m, o, names) ==
    [names |-> names, user_obj |-> u, group_obj |-> g, mask_obj |-> m, other_obj |-> o]

NamesNone == << >>
NamesUser == << IdAccess(1, 7, TRUE) >>
NamesBoth == << IdAccess(1, 6, TRUE), IdAccess(2, 4, FALSE) >>

ModeFile == 33188   \* 0100644
ModeDir == 16877    \* 0040755

(* the option globals of a transfer that writes and the build of a    *)
(* system with neither ACLS_NEED_MASK nor                              *)
(* SMB_ACL_LOSES_SPECIAL_MODE_BITS                                     *)
Options(inc_recurse, am_root, numeric_ids) ==
    [inc_recurse |-> inc_recurse, am_root |-> am_root, numeric_ids |-> numeric_ids,
     dry_run |-> FALSE, read_only |-> FALSE, list_only |-> FALSE,
     ACLS_NEED_MASK |-> FALSE, SMB_ACL_LOSES_SPECIAL_MODE_BITS |-> FALSE]

OptionSets ==
    { Options(FALSE, TRUE, FALSE), Options(TRUE, TRUE, FALSE),
      Options(TRUE, FALSE, TRUE), Options(TRUE, TRUE, TRUE) }

(* a statx as get_acl leaves it: acc_acl and def_acl are << >> for NULL *)
Statx(mode, acc, def) == [st_mode |-> mode, acc_acl |-> acc, def_acl |-> def]

AclPlain == Racl(7, 5, NO_ENTRY, 5, NamesNone)
AclUser == Racl(7, 5, 7, 5, NamesUser)
AclUserOther == Racl(7, 5, 7, 0, NamesUser)
AclBoth == Racl(6, 6, 6, 4, NamesBoth)
AclMaskOnly == Racl(7, 7, 5, 5, NamesNone)

SendInputs ==
    { Statx(ModeFile, << >>, << >>),
      Statx(ModeFile, <<AclPlain>>, << >>),
      Statx(ModeFile, <<AclUser>>, << >>),
      Statx(ModeFile, <<AclUserOther>>, << >>),
      Statx(ModeFile, <<AclBoth>>, << >>),
      Statx(ModeDir, <<AclPlain>>, << >>),
      Statx(ModeDir, <<AclPlain>>, <<AclPlain>>),
      Statx(ModeDir, <<AclUser>>, <<AclUser>>),
      Statx(ModeDir, <<AclBoth>>, <<AclMaskOnly>>),
      Statx(ModeDir, <<AclUser>>, <<AclPlain>>) }

(* the lists, cursors and the stream when a process starts *)
InitLists ==
    /\ s_access = << >>
    /\ s_default = << >>
    /\ s_match = [access |-> -1, default |-> -1]
    /\ wire = << >>
    /\ flist = << >>
    /\ sent = << >>
    /\ r_access = << >>
    /\ r_default = << >>
    /\ r_match = [access |-> -1, default |-> -1]
    /\ r_status = "run"
    /\ files = << >>
    /\ r_calls = << >>
    /\ cached = << >>
    /\ applied = << >>
    /\ id_passes = 0

Init ==
    /\ opts \in OptionSets
    /\ InitLists
    /\ eq_call = << >>

(* ------------------------------------------------------------------ *)
(* send_acl                                                            *)
(* ------------------------------------------------------------------ *)
SendAcl(sxp, limit) ==
    /\ Len(sent) < limit
    /\ LET acc0 == IF sxp.acc_acl = << >>
                   THEN rsync_acl_fake_perms(empty_rsync_acl, sxp.st_mode)
                   ELSE sxp.acc_acl[1]
           acc  == rsync_acl_strip_perms(acc0)
           def  == IF sxp.def_acl = << >> THEN empty_rsync_acl ELSE sxp.def_acl[1]
       IN  \E a \in send_rsync_acl(acc, s_match.access, s_access, opts.inc_recurse) :
             IF S_ISDIR(sxp.st_mode)
             THEN \E d \in send_rsync_acl(def, s_match.default, s_default, opts.inc_recurse) :
                    /\ s_access' = a.list
                    /\ s_default' = d.list
                    /\ s_match' = [access |-> a.match, default |-> d.match]
                    /\ wire' = wire \o a.out \o d.out
                    /\ flist' = Append(flist, sxp.st_mode)
                    /\ sent' = Append(sent,
                                 [mode |-> sxp.st_mode,
                                  acc |-> [val |-> acc, ndx |-> a.ndx, out |-> a.out,
                                           at |-> Len(s_access)],
                                  def |-> << [val |-> def, ndx |-> d.ndx, out |-> d.out,
                                              at |-> Len(s_default)] >>])
             ELSE /\ s_access' = a.list
                  /\ s_default' = s_default
                  /\ s_match' = [s_match EXCEPT !.access = a.match]
                  /\ wire' = wire \o a.out
                  /\ flist' = Append(flist, sxp.st_mode)
                  /\ sent' = Append(sent,
                               [mode |-> sxp.st_mode,
                                acc |-> [val |-> acc, ndx |-> a.ndx, out |-> a.out,
                                         at |-> Len(s_access)],
                                def |-> << >>])
    /\ UNCHANGED <<opts, eq_call, receiver_vars>>

NextSend == \E sxp \in SendInputs : SendAcl(sxp, MaxSends)

SpecSend == Init /\ [][NextSend]_vars

(* ------------------------------------------------------------------ *)
(* What was sent, per ACL type, in the order of the send_rsync_acl     *)
(* calls: the value, the index found or -1, the tokens written and the *)
(* length of the list before the call.                                 *)
(* ------------------------------------------------------------------ *)
AccessSent == [k \in 1..Len(sent) |-> sent[k].acc]

RECURSIVE DefaultSentUpTo(_)
DefaultSentUpTo(k) == IF k = 0 THEN << >> ELSE DefaultSentUpTo(k - 1) \o sent[k].def

DefaultSent == DefaultSentUpTo(Len(sent))

IsLiteral(rec) == rec.out[1] = 0

EarlierEqual(log, k) == { j \in 1..(k - 1) : rsync_acl_equal(log[j].val, log[k].val) }

IndexReuse(log) ==
    \A k \in 1..Len(log) :
        /\ IsLiteral(log[k]) <=> EarlierEqual(log, k) = {}
        /\ ~IsLiteral(log[k]) =>
              /\ log[k].out = <<log[k].ndx + 1>>
              /\ \E j \in EarlierEqual(log, k) : IsLiteral(log[j]) /\ log[j].at = log[k].ndx
        /\ Cardinality({ j \in 1..k : IsLiteral(log[j]) })
             = Cardinality({ j \in 1..k : EarlierEqual(log, j) = {} })

(* C1: index-reuse economy.  Over any sequence of sends, for each ACL   *)
(* type a literal (leading 0) is written exactly for a value that is    *)
(* not structurally equal to any value sent earlier for that type;      *)
(* every other value is written as the single token index+1 of the      *)
(* literal that carried it, also when the equal values are not          *)
(* consecutive.  So N sends of one value give one literal and N-1 pure  *)
(* index references.                                                    *)
C1_IndexReuseEconomy == IndexReuse(AccessSent) /\ IndexReuse(DefaultSent)

(* C1 witness: four sends X, Y, X, Y of two different access values;    *)
(* the last two are pure index references, and the last one is found    *)
(* above the cursor left by the third.                                  *)
C1_Witness ==
    /\ Len(sent) = 4
    /\ rsync_acl_equal(sent[1].acc.val, sent[3].acc.val)
    /\ rsync_acl_equal(sent[2].acc.val, sent[4].acc.val)
    /\ ~rsync_acl_equal(sent[1].acc.val, sent[2].acc.val)
    /\ sent[3].acc.out = <<1>>
    /\ sent[4].acc.out = <<2>>
    /\ Len(s_access) = 2

(* ------------------------------------------------------------------ *)
(* receive_acl                                                         *)
(*                                                                     *)
(* The file is the next entry of the file list; the handler runs when  *)
(* the stream holds the tokens its reads ask for.  r_calls records     *)
(* each recv_rsync_acl call made: the list's type, the leading token,  *)
(* the list before and after, the outcome, the index returned and what *)
(* the call has seen of a literal.                                     *)
(* ------------------------------------------------------------------ *)
RecvCall(type, stream, before, r) ==
    [type |-> type, lead |-> stream[1], before |-> before,
     st |-> r.st, ndx |-> r.ndx, after |-> r.list, seen |-> r.seen]

ReceiveAclStep(mode, a, d) ==
    /\ a.st # "short"
    /\ IF a.st # "ok"
       THEN /\ r_status' = a.st
            /\ r_calls' = << RecvCall("access", wire, r_access, a) >>
            /\ UNCHANGED <<r_access, r_default, files, wire>>
       ELSE IF ~S_ISDIR(mode)
       THEN /\ r_access' = a.list
            /\ wire' = a.rest
            /\ files' = Append(files, [mode |-> mode, acl |-> a.ndx, defacl |-> -1])
            /\ r_calls' = << RecvCall("access", wire, r_access, a) >>
            /\ UNCHANGED <<r_default, r_status>>
       ELSE /\ d.st # "short"
            /\ r_access' = a.list
            /\ r_calls' = << RecvCall("access", wire, r_access, a),
                             RecvCall("default", a.rest, r_default, d) >>
            /\ IF d.st # "ok"
               THEN /\ r_status' = d.st
                    /\ wire' = a.rest
                    /\ UNCHANGED <<r_default, files>>
               ELSE /\ r_default' = d.list
                    /\ wire' = d.rest
                    /\ files' = Append(files, [mode |-> mode, acl |-> a.ndx,
                                               defacl |-> d.ndx])
                    /\ UNCHANGED r_status

ReceiveAclDefault(mode, a) ==
    ReceiveAclStep(mode, a, recv_rsync_acl(r_default, a.rest, opts))

ReceiveAcl ==
    /\ r_status = "run"
    /\ Len(files) < Len(flist)
    /\ ReceiveAclDefault(flist[Len(files) + 1], recv_rsync_acl(r_access, wire, opts))
    /\ UNCHANGED <<opts, eq_call, sender_vars, flist, r_match, cached, applied, id_passes>>

NextWire ==
    \/ \E sxp \in SendInputs : SendAcl(sxp, MaxFiles)
    \/ ReceiveAcl

SpecWire == Init /\ [][NextWire]_vars

(* the index the sender gave a record, and its list's length afterwards *)
AssignedIndex(rec) == IF rec.ndx < 0 THEN rec.at ELSE rec.ndx
LenAfter(log) ==
    IF log = << >> THEN 0
    ELSE log[Len(log)].at + (IF log[Len(log)].ndx < 0 THEN 1 ELSE 0)

(* C2: sender/receiver index agreement.  When the receiver decodes the   *)
(* records in the order they were sent, with the same file modes, every  *)
(* recv_rsync_acl returns the index the sender assigned to that record,  *)
(* no stream error is raised, and after each record the receiver's list  *)
(* of each type is as long as the sender's was after sending it.         *)
C2_IndexAgreement ==
    /\ r_status = "run"
    /\ Len(files) <= Len(sent)
    /\ \A k \in 1..Len(files) :
          /\ files[k].mode = sent[k].mode
          /\ files[k].acl = AssignedIndex(sent[k].acc)
          /\ IF S_ISDIR(files[k].mode)
             THEN files[k].defacl = AssignedIndex(sent[k].def[1])
             ELSE files[k].defacl = -1
    /\ Len(r_access) = LenAfter(SubSeq(AccessSent, 1, Len(files)))
    /\ Len(r_default) = LenAfter(DefaultSentUpTo(Len(files)))

(* C2 witness: three records received, a directory among them, the third *)
(* an index reference to the first, and a literal whose named entry came *)
(* with its name.                                                        *)
C2_Witness ==
    /\ Len(files) = 3
    /\ \E k \in 1..3 : S_ISDIR(files[k].mode) /\ files[k].defacl >= 0
    /\ files[3].acl = files[1].acl
    /\ files[2].acl # files[1].acl
    /\ ~IsLiteral(sent[3].acc)
    /\ opts.inc_recurse
    /\ \E i \in 1..Len(r_access) : r_access[i].racl.names # << >>

(* ------------------------------------------------------------------ *)
(* One literal, any value: a directory whose default ACL is any        *)
(* rsync_acl (send_acl sends the default ACL as get_acl read it).      *)
(* ------------------------------------------------------------------ *)
CodecSlots == {NO_ENTRY} \cup 0..7

CodecNames ==
    { << >>,
      << IdAccess(5, 6, TRUE), IdAccess(9, 4, FALSE) >>,
      << IdAccess(4, 1, FALSE) >>,
      << IdAccess(2, 0, TRUE), IdAccess(2, 2, TRUE) >> }

CodecInputs ==
    { Statx(ModeDir, <<AclPlain>>, <<Racl(u, g, k, o, n)>>) :
        u \in CodecSlots, g \in CodecSlots, k \in CodecSlots, o \in CodecSlots,
        n \in CodecNames }

NextCodec ==
    \/ sent = << >> /\ \E sxp \in CodecInputs : SendAcl(sxp, 1)
    \/ ReceiveAcl

SpecCodec == Init /\ [][NextCodec]_vars

(* the literal default ACLs received so far: the value given to       *)
(* send_rsync_acl and the value recv_rsync_acl stored for it           *)
LiteralsReceived ==
    { [v |-> sent[k].def[1].val, w |-> r_default[files[k].defacl + 1].racl] :
        k \in { j \in 1..Len(files) : S_ISDIR(files[j].mode) /\ IsLiteral(sent[j].def[1]) } }

(* no entry of v is sent with a name or mapped by match_uid / match_gid *)
NoRemap(v) ==
    \/ ~opts.inc_recurse
    \/ /\ opts.am_root /\ opts.numeric_ids
       /\ \A i \in 1..Len(v.names) :
             (IF IsUser(v.names[i].access) THEN add_uid(v.names[i].id)
              ELSE add_gid(v.names[i].id)) = << >>

Perm(ida) == ida.access.lo % 8

(* the OR of the permissions of v's named entries and of its group slot, *)
(* when present, bit by bit                                              *)
OrOfPerms(v) ==
    LET on(b) == \/ \E i \in 1..Len(v.names) : HasBit(Perm(v.names[i]), b)
                 \/ v.group_obj # NO_ENTRY /\ HasBit(v.group_obj, b)
    IN  (IF on(1) THEN 1 ELSE 0) + (IF on(2) THEN 2 ELSE 0) + (IF on(4) THEN 4 ELSE 0)

(* C3 as stated: the value stored for a literal is structurally equal   *)
(* to the value encoded, when no id is remapped.                        *)
C3_RoundTripEqual ==
    \A x \in LiteralsReceived : NoRemap(x.v) => rsync_acl_equal(x.w, x.v)

(* C3 amended: the stored value has the same user_obj, other_obj and     *)
(* named entries in the same order; it is structurally equal to the      *)
(* encoded value when that has a mask exactly when it has named entries. *)
(* With named entries and no mask the stored mask is the OR of the       *)
(* entries' permissions and the group slot; with a mask and no named     *)
(* entries the mask is dropped and a present group slot is ANDed with    *)
(* it.                                                                   *)
C3_RoundTripNormalized ==
    \A x \in LiteralsReceived :
        NoRemap(x.v) =>
          /\ x.w.user_obj = x.v.user_obj
          /\ x.w.other_obj = x.v.other_obj
          /\ x.w.names = x.v.names
          /\ IF x.v.names = << >>
             THEN /\ x.w.mask_obj = NO_ENTRY
                  /\ x.w.group_obj =
                       IF x.v.mask_obj # NO_ENTRY /\ x.v.group_obj # NO_ENTRY
                       THEN BitAnd(x.v.group_obj, x.v.mask_obj) ELSE x.v.group_obj
             ELSE /\ x.w.group_obj = x.v.group_obj
                  /\ x.w.mask_obj =
                       IF x.v.mask_obj # NO_ENTRY THEN x.v.mask_obj ELSE OrOfPerms(x.v)
          /\ ((x.v.names = << >>) <=> (x.v.mask_obj = NO_ENTRY)) => x.w = x.v

(* C3 witness: a literal with all four slots and two named entries was  *)
(* decoded to an equal value.                                           *)
C3_Witness ==
    \E x \in LiteralsReceived :
        /\ NoRemap(x.v)
        /\ Len(x.v.names) = 2
        /\ x.v.user_obj = 7 /\ x.v.group_obj = 5 /\ x.v.mask_obj = 6 /\ x.v.other_obj = 0
        /\ x.w = x.v

(* C8: mask synthesis.  A literal decoded with at least one named entry  *)
(* and no mask slot is stored with the mask equal to the OR of the 3-bit *)
(* permissions of its named entries, ORed with the group slot when that  *)
(* is present; the mask lies in 0..7.                                    *)
C8_MaskSynthesis ==
    \A x \in LiteralsReceived :
        (x.v.names # << >> /\ x.v.mask_obj = NO_ENTRY) =>
            /\ x.w.mask_obj = OrOfPerms(x.w)
            /\ x.w.mask_obj \in 0..7

(* C8 witness: {(uid=5, rw-), (gid=9, r--)} with no group slot and no   *)
(* mask slot is stored with mask rw-.                                    *)
C8_Witness ==
    \E x \in LiteralsReceived :
        /\ ~opts.inc_recurse
        /\ x.v.names = << IdAccess(5, 6, TRUE), IdAccess(9, 4, FALSE) >>
        /\ x.v.group_obj = NO_ENTRY /\ x.v.mask_obj = NO_ENTRY
        /\ x.w.names = x.v.names
        /\ x.w.mask_obj = 6

(* ------------------------------------------------------------------ *)
(* cache_acl                                                           *)
(*                                                                     *)
(* cached records each cache_rsync_acl call that returned: the         *)
(* candidate, the index returned, the list before and after and the    *)
(* candidate's memory after the call.  A lookup that faults ends the   *)
(* process with r_status "SIGSEGV".                                    *)
(* ------------------------------------------------------------------ *)
CacheCall(racl, before, c) ==
    [val |-> racl, ndx |-> c.ndx, before |-> before, after |-> c.list, left |-> c.left]

CacheAclStep(sxp, a, d) ==
    IF a.segv
    THEN /\ r_status' = "SIGSEGV"
         /\ r_match' = [r_match EXCEPT !.access = a.match]
         /\ UNCHANGED <<r_access, r_default, cached>>
    ELSE IF ~S_ISDIR(sxp.st_mode)
    THEN /\ r_access' = a.list
         /\ r_match' = [r_match EXCEPT !.access = a.match]
         /\ cached' = Append(cached, [mode |-> sxp.st_mode,
                                      acc |-> CacheCall(sxp.acc_acl, r_access, a),
                                      def |-> << >>])
         /\ UNCHANGED <<r_default, r_status>>
    ELSE IF d.segv
    THEN /\ r_status' = "SIGSEGV"
         /\ r_access' = a.list
         /\ r_match' = [access |-> a.match, default |-> d.match]
         /\ UNCHANGED <<r_default, cached>>
    ELSE /\ r_access' = a.list
         /\ r_default' = d.list
         /\ r_match' = [access |-> a.match, default |-> d.match]
         /\ cached' = Append(cached, [mode |-> sxp.st_mode,
                                      acc |-> CacheCall(sxp.acc_acl, r_access, a),
                                      def |-> << CacheCall(sxp.def_acl, r_default, d) >>])
         /\ UNCHANGED r_status

CacheAcl(sxp) ==
    /\ r_status = "run"
    /\ Len(cached) < MaxCaches
    /\ \E a \in cache_rsync_acl(sxp.acc_acl, r_match.access, r_access) :
         \E d \in cache_rsync_acl(sxp.def_acl, r_match.default, r_default) :
            CacheAclStep(sxp, a, d)
    /\ UNCHANGED <<opts, eq_call, sender_vars, wire, flist, files, r_calls, applied,
                   id_passes>>

AclZero == Racl(0, 0, 0, 0, NamesNone)
AclGroupRead == Racl(6, 4, NO_ENTRY, 4, NamesNone)
AclOne == Racl(1, 0, 0, 0, NamesUser)
AclTwo == Racl(2, 0, 0, 0, NamesBoth)

CacheInputs ==
    { Statx(ModeFile, << >>, << >>),
      Statx(ModeFile, <<AclPlain>>, << >>),
      Statx(ModeFile, <<AclGroupRead>>, << >>),
      Statx(ModeFile, <<AclZero>>, << >>),
      Statx(ModeFile, <<AclUser>>, << >>),
      Statx(ModeFile, <<AclUserOther>>, << >>),
      Statx(ModeDir, <<AclPlain>>, <<empty_rsync_acl>>),
      Statx(ModeDir, <<AclUser>>, <<AclBoth>>),
      Statx(ModeDir, <<AclPlain>>, << >>),
      Statx(ModeFile, <<AclOne>>, << >>),
      Statx(ModeDir, <<AclPlain>>, <<AclTwo>>) }

NextCache == \E sxp \in CacheInputs : CacheAcl(sxp)

SpecCache == Init /\ [][NextCache]_vars

(* the cache_rsync_acl calls per list, in order, NULL candidates left out *)
AccessCached == SelectSeq([k \in 1..Len(cached) |-> cached[k].acc], LAMBDA c : c.val # << >>)

RECURSIVE DefaultCachedUpTo(_)
DefaultCachedUpTo(k) ==
    IF k = 0 THEN << >> ELSE DefaultCachedUpTo(k - 1) \o cached[k].def

DefaultCached == SelectSeq(DefaultCachedUpTo(Len(cached)), LAMBDA c : c.val # << >>)

IsNew(v, list) == \A i \in 1..Len(list) : ~rsync_acl_equal(list[i].racl, v)

InternTwice(log) ==
    \A k \in 1..(Len(log) - 1) :
        rsync_acl_equal(log[k].val[1], log[k + 1].val[1]) =>
            /\ log[k + 1].ndx = log[k].ndx
            /\ Len(log[k].after) = Len(log[k].before)
                                   + (IF IsNew(log[k].val[1], log[k].before) THEN 1 ELSE 0)
            /\ Len(log[k + 1].after) = Len(log[k + 1].before)

(* C4: interning is idempotent.  Whenever a value is interned into a    *)
(* table with cache_rsync_acl and a structurally equal value is         *)
(* interned next, both calls return the same index; the table grows by  *)
(* one entry on the first call if the value was new and by none on the  *)
(* second.                                                              *)
C4_InternIdempotent == InternTwice(AccessCached) /\ InternTwice(DefaultCached)

SameIndexEqual(log) ==
    \A j, k \in 1..Len(log) :
        log[j].ndx = log[k].ndx => rsync_acl_equal(log[j].val[1], log[k].val[1])

(* C5: interning never conflates different ACLs.  Over any sequence of  *)
(* cache_rsync_acl calls on one table two candidates get the same index *)
(* only if they are structurally equal.                                 *)
C5_InternNeverConflates == SameIndexEqual(AccessCached) /\ SameIndexEqual(DefaultCached)

(* ------------------------------------------------------------------ *)
(* A stream the receiver does not control: the peer's tokens are       *)
(* whatever read_varint and read_byte return.  A fed record is an      *)
(* index reference, the literal of an ACL, or such a literal with one  *)
(* token replaced.                                                     *)
(* ------------------------------------------------------------------ *)
FeedAcl == Racl(7, 5, 6, 4, << IdAccess(4, 6, TRUE) >>)

FeedRefs == { <<n>> : n \in {-1, 1, 2, 3} }

FeedLiteral(v) == <<0>> \o SendLiteral(v, opts.inc_recurse)

BadTokens == {-1, 8, 32, 128}

Corrupted(rec) ==
    { [rec EXCEPT ![i] = c] : i \in 2..Len(rec), c \in BadTokens }

FeedRecords ==
    FeedRefs \cup { FeedLiteral(FeedAcl), FeedLiteral(AclPlain) }
             \cup Corrupted(FeedLiteral(FeedAcl))

Feed(mode, toks) ==
    /\ r_status = "run"
    /\ Len(flist) < MaxFeeds
    /\ Len(files) = Len(flist)
    /\ flist' = Append(flist, mode)
    /\ wire' = wire \o toks
    /\ UNCHANGED <<opts, eq_call, sender_vars, receiver_vars>>

NextRecv ==
    \/ \E toks \in FeedRecords : Feed(ModeFile, toks)
    \/ \E acc \in { <<1>>, FeedLiteral(AclPlain) }, def \in FeedRecords :
          Feed(ModeDir, acc \o def)
    \/ ReceiveAcl

SpecRecv == Init /\ [][NextRecv]_vars

RecvCalls == { r_calls[k] : k \in 1..Len(r_calls) }

(* C6: index validation on decode.  A recv_rsync_acl call that reads a  *)
(* positive leading value N returns N-1 and leaves the table as it was  *)
(* exactly when N-1 is below the table's size; a negative value, or a   *)
(* positive one with N-1 not below the size, ends the run with          *)
(* RERR_STREAMIO, no index is returned and no file gets one.            *)
C6_IndexValidation ==
    \A c \in RecvCalls :
        /\ c.lead > 0 =>
              ((c.st = "ok" /\ c.ndx = c.lead - 1 /\ c.after = c.before)
                 <=> c.lead - 1 < Len(c.before))
        /\ (c.lead < 0 \/ (c.lead > 0 /\ c.lead - 1 >= Len(c.before))) =>
              /\ c.st = "RERR_STREAMIO"
              /\ r_status = "RERR_STREAMIO"
              /\ c.ndx = -1
              /\ c.after = c.before
              /\ Len(files) < Len(flist)

(* C6 witness: a directory's record read from a table of one entry: the *)
(* access ACL is the reference 1 and gets index 0, the default ACL is   *)
(* the reference 2, one past the end, and ends the run.                 *)
C6_Witness ==
    /\ Len(r_calls) = 2
    /\ r_calls[1].lead = 1 /\ Len(r_calls[1].before) = 1
    /\ r_calls[1].st = "ok" /\ r_calls[1].ndx = 0
    /\ r_calls[2].lead = 2 /\ Len(r_calls[2].before) = 1
    /\ r_calls[2].st = "RERR_STREAMIO"
    /\ r_status = "RERR_STREAMIO"

BadRead(rd) ==
    IF rd.is_name THEN rd.tok < 0 \/ rd.tok > 31 ELSE rd.tok < 0 \/ rd.tok > 7

SlotFlags ==
    { <<XMIT_USER_OBJ, "user_obj">>, <<XMIT_GROUP_OBJ, "group_obj">>,
      <<XMIT_MASK_OBJ, "mask_obj">>, <<XMIT_OTHER_OBJ, "other_obj">> }

StoredInRange(list) ==
    \A i \in 1..Len(list) :
        /\ \A f \in SlotFlags : list[i].racl[f[2]] \in (0..7) \cup {NO_ENTRY}
        /\ \A j \in 1..Len(list[i].racl.names) :
              /\ list[i].racl.names[j].access.lo \in 0..7
              /\ list[i].racl.names[j].access.hi \in {0, 32768}

(* C7: reserved-bit rejection on decode.  A recv_rsync_acl call in      *)
(* which recv_acl_access read a slot value with a bit outside rwx, or a *)
(* named entry's field whose value above the two flag bits has a bit    *)
(* outside rwx, ends the run with RERR_STREAMIO.  So every slot stored  *)
(* in a receiver table is absent or in 0..7, every named entry's        *)
(* permission is in 0..7, and a slot decoded for a literal is in 0..7   *)
(* when its flag bit was set and absent when it was clear.              *)
C7_ReservedBitRejection ==
    /\ \A c \in RecvCalls :
          /\ (\E k \in 1..Len(c.seen.reads) : BadRead(c.seen.reads[k])) =>
                c.st = "RERR_STREAMIO" /\ r_status = "RERR_STREAMIO"
          /\ (c.lead = 0 /\ c.st = "ok") =>
                \A f \in SlotFlags :
                    IF HasBit(c.seen.flags, f[1])
                    THEN c.seen.raw[f[2]] \in 0..7
                    ELSE c.seen.raw[f[2]] = NO_ENTRY
    /\ StoredInRange(r_access)
    /\ StoredInRange(r_default)

(* C7 witness: a literal whose four slots were read and whose named     *)
(* entry carries the permission field 8 (token 32) ended the run, after *)
(* a literal with a named entry had been stored.                        *)
C7_Witness ==
    /\ r_status = "RERR_STREAMIO"
    /\ \E c \in RecvCalls :
          /\ c.st = "RERR_STREAMIO"
          /\ Len(c.seen.reads) = 5
          /\ c.seen.reads[5] = [is_name |-> TRUE, tok |-> 32]
    /\ \E i \in 1..Len(r_access) : r_access[i].racl.names # << >>

(* ------------------------------------------------------------------ *)
(* rsync_acl_equal_enough on its own: the arguments are drawn from the *)
(* ACLs below and three modes, and the call records its result.        *)
(* ------------------------------------------------------------------ *)
EqSlots == { <<7, 5>>, <<0, NO_ENTRY>> }

EqAcls ==
    { Racl(uo[1], g, k, uo[2], n) :
        uo \in EqSlots, g \in {NO_ENTRY, 0, 5, 7}, k \in {NO_ENTRY, 5, 7},
        n \in {NamesNone, NamesUser, NamesBoth} }

EqModes == { 33256, 33272, 33216 }   \* 0100750, 0100770, 0100700

InitEq ==
    /\ opts \in OptionSets
    /\ InitLists
    /\ \E a \in EqAcls, b \in EqAcls, m \in EqModes :
          eq_call = << [a |-> a, b |-> b, m |-> m] >>

CallEqualEnough ==
    /\ Len(eq_call) = 1
    /\ eq_call' = Append(eq_call,
                         rsync_acl_equal_enough(eq_call[1].a, eq_call[1].b, eq_call[1].m))
    /\ UNCHANGED <<opts, sender_vars, receiver_vars, wire, flist>>

NextEq == CallEqualEnough

SpecEq == InitEq /\ [][NextEq]_vars

GroupBits(m) == (m \div 8) % 8
HasMask(v) == v.mask_obj # NO_ENTRY

(* C9 as stated: the result is true exactly when both have or both lack *)
(* a mask, the named entries are equal, and, with a mask, the group     *)
(* slots match exactly or the slot is absent on either side and the     *)
(* other side's slot equals the mode's group bits.                      *)
C9_EqualEnoughEitherSide ==
    Len(eq_call) = 2 =>
        LET a == eq_call[1].a
            b == eq_call[1].b
            gm == GroupBits(eq_call[1].m)
        IN  eq_call[2] <=>
              /\ HasMask(a) <=> HasMask(b)
              /\ HasMask(a) =>
                    \/ a.group_obj = b.group_obj
                    \/ a.group_obj = NO_ENTRY /\ b.group_obj = gm
                    \/ b.group_obj = NO_ENTRY /\ a.group_obj = gm
              /\ a.names = b.names

(* C9 amended: the result is true exactly when both have or both lack a *)
(* mask, the named entries are equal, and, with a mask, the first       *)
(* ACL's group slot is present and equals the second's group slot, or   *)
(* the mode's group bits when the second has none.  The user and other  *)
(* slots and the mask's value play no part.                             *)
C9_EqualEnough ==
    Len(eq_call) = 2 =>
        LET a == eq_call[1].a
            b == eq_call[1].b
            gm == GroupBits(eq_call[1].m)
        IN  eq_call[2] <=>
              /\ HasMask(a) <=> HasMask(b)
              /\ HasMask(a) =>
                    /\ a.group_obj # NO_ENTRY
                    /\ \/ a.group_obj = b.group_obj
                       \/ b.group_obj = NO_ENTRY /\ a.group_obj = gm
              /\ a.names = b.names

(* C9 witness: under mode 0750 the first ACL with mask rwx and group    *)
(* r-x is equal enough to a second with mask r-x, no group slot and     *)
(* other user and other slots.                                          *)
C9_Witness ==
    /\ Len(eq_call) = 2
    /\ eq_call[2]
    /\ eq_call[1].m = 33256
    /\ eq_call[1].a = Racl(7, 5, 7, 5, NamesUser)
    /\ eq_call[1].b = Racl(0, NO_ENTRY, 5, NO_ENTRY, NamesUser)

(* ------------------------------------------------------------------ *)
(* set_acl                                                             *)
(*                                                                     *)
(* set_acl(fname, file, sxp) for the k-th received file; fname says    *)
(* fname is not NULL.  applied records the call: its arguments, the    *)
(* lists before and after it, "unchanged" after the access block, the  *)
(* native                                                              *)
(* calls of each block, whether the default block was run (def_run),   *)
(* sxp->st.st_mode afterwards and the value returned (<< >> when the   *)
(* process faulted); seq numbers the calls.                            *)
(* ------------------------------------------------------------------ *)
(* the number of set_acl calls made *)
Applies == IF applied = << >> THEN 0 ELSE applied[1].seq

SetAclCall(k, fname, sxp, ret, a, def_run, d_ops, d_list, st_mode) ==
    [seq |-> Applies + 1,
     file |-> files[k], fname |-> fname, sxp |-> sxp,
     access_before |-> r_access, default_before |-> r_default,
     access_after |-> a.list, default_after |-> d_list,
     after_access |-> a.unchanged, acc_ops |-> a.ops,
     def_run |-> def_run, def_ops |-> d_ops,
     st_mode |-> st_mode, ret |-> ret]

(* set_acl returning as soon as the access ACL could not be applied *)
SetAclStep_stop_on_failure(k, fname, sxp, a, d) ==
    IF a.crash
    THEN /\ r_status' = "SIGSEGV"
         /\ r_access' = a.list
         /\ applied' = << SetAclCall(k, fname, sxp, << >>, a, FALSE, << >>, r_default,
                                     a.st_mode) >>
         /\ UNCHANGED r_default
    ELSE IF ~S_ISDIR(a.st_mode) \/ a.unchanged < 0
    THEN /\ r_access' = a.list
         /\ applied' = << SetAclCall(k, fname, sxp, <<a.unchanged>>, a, FALSE, << >>,
                                     r_default, a.st_mode) >>
         /\ UNCHANGED <<r_default, r_status>>
    ELSE /\ r_access' = a.list
         /\ r_default' = d.list
         /\ r_status' = IF d.crash THEN "SIGSEGV" ELSE r_status
         /\ applied' = << SetAclCall(k, fname, sxp,
                                     IF d.crash THEN << >> ELSE <<d.unchanged>>,
                                     a, TRUE, d.ops, d.list, d.st_mode) >>

SetAclStep(k, fname, sxp, a, d) ==
    IF a.crash
    THEN /\ r_status' = "SIGSEGV"
         /\ r_access' = a.list
         /\ applied' = << SetAclCall(k, fname, sxp, << >>, a, FALSE, << >>, r_default,
                                     a.st_mode) >>
         /\ UNCHANGED r_default
    ELSE IF ~S_ISDIR(a.st_mode)
    THEN /\ r_access' = a.list
         /\ applied' = << SetAclCall(k, fname, sxp, <<a.unchanged>>, a, FALSE, << >>,
                                     r_default, a.st_mode) >>
         /\ UNCHANGED <<r_default, r_status>>
    ELSE /\ r_access' = a.list
         /\ r_default' = d.list
         /\ r_status' = IF d.crash THEN "SIGSEGV" ELSE r_status
         /\ applied' = << SetAclCall(k, fname, sxp,
                                     IF d.crash THEN << >> ELSE <<d.unchanged>>,
                                     a, TRUE, d.ops, d.list, d.st_mode) >>

(* the refusal at the top of set_acl: errno = EROFS, return -1 *)
SetAclRefused(k, fname, sxp) ==
    /\ applied' = << [seq |-> Applies + 1,
                      file |-> files[k], fname |-> fname, sxp |-> sxp,
                      access_before |-> r_access, default_before |-> r_default,
                      access_after |-> r_access, default_after |-> r_default,
                      after_access |-> 1, acc_ops |-> << >>,
                      def_run |-> FALSE, def_ops |-> << >>,
                      st_mode |-> sxp.st_mode, ret |-> <<-1>>] >>
    /\ UNCHANGED <<r_access, r_default, r_status>>

(* set_acl applying the ACLs also when fname is NULL *)
SetAcl_writes_without_fname(k, fname, sxp) ==
    /\ r_status = "run"
    /\ Applies < MaxApplies
    /\ IF ~opts.dry_run /\ (opts.read_only \/ opts.list_only)
       THEN SetAclRefused(k, fname, sxp)
       ELSE \E a \in SetAclPart("access", files[k].acl, r_access, sxp.acc_acl, 1,
                                sxp.st_mode, files[k].mode, ~opts.dry_run, opts) :
              \E d \in SetAclPart("default", files[k].defacl, r_default, sxp.def_acl,
                                  a.unchanged, a.st_mode, files[k].mode,
                                  ~opts.dry_run, opts) :
                 SetAclStep(k, fname, sxp, a, d)
    /\ UNCHANGED <<opts, eq_call, sender_vars, wire, flist, files, r_match, r_calls, cached,
                   id_passes>>

SetAcl(k, fname, sxp) ==
    /\ r_status = "run"
    /\ Applies < MaxApplies
    /\ IF ~opts.dry_run /\ (opts.read_only \/ opts.list_only)
       THEN SetAclRefused(k, fname, sxp)
       ELSE \E a \in SetAclPart("access", files[k].acl, r_access, sxp.acc_acl, 1,
                                sxp.st_mode, files[k].mode, ~opts.dry_run /\ fname, opts) :
              \E d \in SetAclPart("default", files[k].defacl, r_default, sxp.def_acl,
                                  a.unchanged, a.st_mode, files[k].mode,
                                  ~opts.dry_run /\ fname, opts) :
                 SetAclStep(k, fname, sxp, a, d)
    /\ UNCHANGED <<opts, eq_call, sender_vars, wire, flist, files, r_match, r_calls, cached,
                   id_passes>>

ModeDirSticky == 17389    \* 0041755
ModeFileSetuid == 35309   \* 0104755

ApplyOptionSets ==
    { [Options(FALSE, TRUE, FALSE) EXCEPT
         !.ACLS_NEED_MASK = b[1], !.SMB_ACL_LOSES_SPECIAL_MODE_BITS = b[2]] :
        b \in { <<FALSE, FALSE>>, <<TRUE, FALSE>>, <<FALSE, TRUE>> } }
    \cup
    { [Options(FALSE, TRUE, FALSE) EXCEPT
         !.dry_run = r[1], !.read_only = r[2], !.list_only = r[3]] :
        r \in { <<TRUE, FALSE, FALSE>>, <<FALSE, TRUE, FALSE>>, <<FALSE, FALSE, TRUE>>,
                <<TRUE, TRUE, FALSE>> } }

InitApply ==
    /\ opts \in ApplyOptionSets
    /\ InitLists
    /\ eq_call = << >>

(* what the sender reads for the files of the transfer *)
ApplyInputs ==
    { Statx(ModeFile, <<AclUser>>, << >>),
      Statx(ModeDir, <<AclUser>>, <<AclPlain>>),
      Statx(ModeDirSticky, <<AclPlain>>, <<empty_rsync_acl>>) }

(* what get_acl reads for the destination of a file of the given mode *)
DestInputs(mode) ==
    IF S_ISDIR(mode)
    THEN { Statx(md, acc, def) :
             md \in {ModeDir, ModeDirSticky},
             acc \in { <<AclPlain>>, <<AclUser>> },
             def \in { << >>, <<empty_rsync_acl>>, <<AclPlain>> } }
    ELSE { Statx(md, acc, << >>) :
             md \in {ModeFile, ModeFileSetuid},
             acc \in { << >>, <<AclPlain>>, <<AclUser>> } }

NextApply ==
    \/ applied = << >> /\ \E sxp \in ApplyInputs : SendAcl(sxp, MaxApplyFiles)
    \/ ReceiveAcl
    \/ \E k \in 1..Len(files), fname \in BOOLEAN :
          \E sxp \in DestInputs(files[k].mode) : SetAcl(k, fname, sxp)

SpecApply == InitApply /\ [][NextApply]_vars

(* the native calls of the last set_acl made for the access ACL *)
AccessOps ==
    IF applied = << >> THEN {}
    ELSE { applied[1].acc_ops[i] : i \in 1..Len(applied[1].acc_ops) }
         \cup { applied[1].def_ops[i] : i \in { j \in 1..Len(applied[1].def_ops) :
                                                 applied[1].def_ops[j].type = "access" } }

(* the last set_acl was given an access ACL that is equal enough to   *)
(* the cached ACL at the file's access index                          *)
AccessEqualEnough ==
    /\ applied # << >>
    /\ applied[1].sxp.acc_acl # << >>
    /\ applied[1].file.acl \in 0..(Len(applied[1].access_before) - 1)
    /\ rsync_acl_equal_enough(applied[1].sxp.acc_acl[1],
                              applied[1].access_before[applied[1].file.acl + 1].racl,
                              applied[1].file.mode)

(* C10: no needless access-ACL write.  When the access ACL read for the *)
(* file is present and equal enough, for the file's mode, to the cached *)
(* ACL at the file's access index, set_acl makes no native call for the *)
(* access ACL (no write, no build of the entry's handle, which stays as *)
(* it was), "unchanged" is still 1 after the access block, the mode in  *)
(* sxp is not touched and a non-directory gets the result 1 unless the  *)
(* call was refused for a read-only run.                                *)
C10_NoNeedlessAccessWrite ==
    AccessEqualEnough =>
        /\ AccessOps = {}
        /\ applied[1].access_after = applied[1].access_before
        /\ applied[1].after_access = 1
        /\ applied[1].st_mode = applied[1].sxp.st_mode
        /\ (~S_ISDIR(applied[1].sxp.st_mode)
            /\ (opts.dry_run \/ (~opts.read_only /\ ~opts.list_only)))
              => applied[1].ret = <<1>>

(* C10 witness: in a run that writes, set_acl with a file name on a    *)
(* non-directory whose ACL on disk has a named entry and a mode that   *)
(* differs from the file's: the ACL is equal enough to the cached one, *)
(* whose handle is not built, and the result is 1.                     *)
C10_Witness ==
    /\ AccessEqualEnough
    /\ ~opts.dry_run /\ ~opts.read_only /\ ~opts.list_only
    /\ applied[1].fname
    /\ applied[1].sxp.acc_acl[1].names # << >>
    /\ applied[1].sxp.st_mode # applied[1].file.mode
    /\ applied[1].access_after[applied[1].file.acl + 1].sacl.st = "NULL"
    /\ applied[1].ret = <<1>>

(* the last set_acl ran its default block with a file name in a run    *)
(* that writes, for a default index in range                           *)
DefaultBlockWrites ==
    /\ applied # << >>
    /\ applied[1].def_run
    /\ applied[1].fname /\ ~opts.dry_run
    /\ applied[1].file.defacl \in 0..(Len(applied[1].default_before) - 1)

(* the cached default ACL of the file of the last set_acl *)
DefaultDuo == applied[1].default_before[applied[1].file.defacl + 1]

(* the default ACL read for the destination equals the cached one *)
DefaultEqual ==
    /\ applied[1].sxp.def_acl # << >>
    /\ rsync_acl_equal(applied[1].sxp.def_acl[1], DefaultDuo.racl)

(* C11: default-ACL deletion.  When set_acl applies to a directory a   *)
(* cached default ACL whose user_obj is NO_ENTRY (it differs from the  *)
(* directory's default ACL, fname is given and the run writes), the    *)
(* only native call of the default block is sys_acl_delete_def_file:   *)
(* no object is packed, none is written, and the handle of the cached  *)
(* entry stays as it was.                                              *)
C11_DefaultDeletion ==
    (DefaultBlockWrites /\ ~DefaultEqual /\ DefaultDuo.racl.user_obj = NO_ENTRY) =>
        /\ Len(applied[1].def_ops) = 1
        /\ applied[1].def_ops[1].op = "sys_acl_delete_def_file"
        /\ applied[1].default_after = applied[1].default_before

(* C11 witness: a directory with the default ACL AclPlain on disk and  *)
(* an empty cached default ACL; the deletion succeeds and set_acl      *)
(* returns 0 with the access ACL left alone.                           *)
C11_Witness ==
    /\ DefaultBlockWrites /\ ~DefaultEqual /\ DefaultDuo.racl.user_obj = NO_ENTRY
    /\ applied[1].sxp.def_acl = <<AclPlain>>
    /\ applied[1].acc_ops = << >>
    /\ applied[1].def_ops = << Op("sys_acl_delete_def_file", "default", TRUE, NullSacl) >>
    /\ applied[1].ret = <<0>>

(* the successful sys_acl_set_file calls of the access block of the    *)
(* last set_acl                                                        *)
AccessWrites ==
    IF applied = << >> THEN {}
    ELSE { applied[1].acc_ops[i] : i \in { j \in 1..Len(applied[1].acc_ops) :
              /\ applied[1].acc_ops[j].op = "sys_acl_set_file"
              /\ applied[1].acc_ops[j].ok } }

(* a directory whose target mode has the sticky bit and whose current  *)
(* mode has not                                                        *)
StickyGoingOn ==
    /\ S_ISDIR(applied[1].file.mode)
    /\ HasBit(applied[1].file.mode, S_ISVTX)
    /\ ~HasBit(applied[1].sxp.st_mode, S_ISVTX)

(* a non-directory whose current mode has setuid or setgid and whose   *)
(* target mode has not                                                 *)
SetidGoingOff ==
    /\ ~S_ISDIR(applied[1].file.mode)
    /\ \/ HasBit(applied[1].sxp.st_mode, S_ISUID) /\ ~HasBit(applied[1].file.mode, S_ISUID)
       \/ HasBit(applied[1].sxp.st_mode, S_ISGID) /\ ~HasBit(applied[1].file.mode, S_ISGID)

(* the entries of the written object were filled from a mode without   *)
(* group and other bits, and that mode is the one recorded in sxp      *)
WindowClosed ==
    /\ \A w \in AccessWrites :
          /\ w.acl.user_obj = (applied[1].file.mode \div 64) % 8
          /\ w.acl.other_obj = 0
          /\ w.acl.mask_obj \in {0, NO_ENTRY}
          /\ applied[1].access_before[applied[1].file.acl + 1].racl.group_obj = NO_ENTRY
                => w.acl.group_obj = 0
    /\ applied[1].st_mode % 64 = 0
    /\ applied[1].st_mode \div 512 = applied[1].sxp.st_mode \div 512
    /\ (applied[1].st_mode \div 64) % 8 = (applied[1].file.mode \div 64) % 8

(* C12 as stated: whenever an access ACL is written to a directory     *)
(* that is gaining the sticky bit or to a non-directory that is losing *)
(* setuid or setgid, the entries are filled from, and sxp records, a   *)
(* mode with the bits 0077 cleared.                                    *)
C12_SafetyWindow ==
    (AccessWrites # {} /\ (StickyGoingOn \/ SetidGoingOff)) => WindowClosed

(* C12: the same, for the cases in which the build masks the mode: a   *)
(* directory gaining the sticky bit in every build, a non-directory    *)
(* losing setuid or setgid only in a build without                     *)
(* SMB_ACL_LOSES_SPECIAL_MODE_BITS; in a build with it a non-directory *)
(* is written with, and sxp records, the permission bits of the target *)
(* mode in full.                                                       *)
C12_SafetyWindowPerBuild ==
    AccessWrites # {} =>
        /\ StickyGoingOn => WindowClosed
        /\ (SetidGoingOff /\ ~opts.SMB_ACL_LOSES_SPECIAL_MODE_BITS) => WindowClosed
        /\ (SetidGoingOff /\ opts.SMB_ACL_LOSES_SPECIAL_MODE_BITS) =>
              /\ applied[1].st_mode % 512 = applied[1].file.mode % 512
              /\ \A w \in AccessWrites : w.acl.other_obj = applied[1].file.mode % 8

(* C12 witness: a setuid file on disk, target mode 0644, written in a  *)
(* build without SMB_ACL_LOSES_SPECIAL_MODE_BITS: sxp records 04600.    *)
C12_Witness ==
    /\ AccessWrites # {}
    /\ SetidGoingOff /\ ~opts.SMB_ACL_LOSES_SPECIAL_MODE_BITS
    /\ applied[1].file.mode = ModeFile
    /\ applied[1].st_mode = ModeFileSetuid - 493 + 384
    /\ applied[1].ret = <<0>>

(* the native calls of the last set_acl that reported an error *)
FailedOps ==
    IF applied = << >> THEN {}
    ELSE { o \in { applied[1].acc_ops[i] : i \in 1..Len(applied[1].acc_ops) }
                  \cup { applied[1].def_ops[i] : i \in 1..Len(applied[1].def_ops) } :
           ~o.ok }

(* C13: native failure is reported as Failed.  Whenever a native call  *)
(* made while set_acl applies an ACL reports an error (pack_smb_acl,   *)
(* change_sacl_perms, sys_acl_set_file or sys_acl_delete_def_file), a  *)
(* set_acl that returns returns -1.                                    *)
C13_NativeFailureIsFailed ==
    (FailedOps # {} /\ applied[1].ret # << >>) => applied[1].ret = <<-1>>

(* the access block of the last set_acl found a cached ACL in range    *)
(* that is not equal enough to the one read for the destination        *)
AccessDiffers ==
    /\ applied[1].file.acl \in 0..(Len(applied[1].access_before) - 1)
    /\ ~AccessEqualEnough

(* the same for the default block, run for a directory only *)
DefaultDiffers ==
    /\ S_ISDIR(applied[1].sxp.st_mode)
    /\ applied[1].file.defacl \in 0..(Len(applied[1].default_before) - 1)
    /\ ~DefaultEqual

(* C14 as stated: with dry_run set, set_acl returns 1 for every file. *)
C14_DryRunUnchanged ==
    (applied # << >> /\ opts.dry_run) => applied[1].ret = <<1>>

(* C14: with dry_run set, set_acl makes no native call and returns 1   *)
(* when neither cached ACL of the file differs from the destination's, *)
(* and 0 when one does; it never returns -1.                           *)
C14_DryRunOutcome ==
    (applied # << >> /\ opts.dry_run) =>
        /\ applied[1].acc_ops = << >> /\ applied[1].def_ops = << >>
        /\ applied[1].ret = IF AccessDiffers \/ DefaultDiffers THEN <<0>> ELSE <<1>>

(* C14 witness: a dry run with a file name in which only the default   *)
(* ACL of a directory differs: the result is 0.                        *)
C14_Witness ==
    /\ applied # << >> /\ opts.dry_run
    /\ applied[1].fname
    /\ ~AccessDiffers /\ DefaultDiffers
    /\ applied[1].after_access = 1
    /\ applied[1].ret = <<0>>

(* the access block of the last set_acl, for a directory, ended with   *)
(* "unchanged" at -1 (set_rsync_acl returned -1, the process went on)  *)
AccessFailed ==
    /\ applied # << >>
    /\ S_ISDIR(applied[1].sxp.st_mode)
    /\ applied[1].after_access = -1
    /\ ~(applied[1].ret = << >> /\ ~applied[1].def_run)

(* C15: a failed access ACL does not stop the default ACL.  For a      *)
(* directory, when applying the access ACL fails, the default block of *)
(* the same call is still run: the default ACL is compared and, when   *)
(* it differs, a native call is made for it; the result of a set_acl   *)
(* that returns is -1 whatever the default block did.                  *)
C15_FailedAccessStillTriesDefault ==
    AccessFailed =>
        /\ applied[1].def_run
        /\ (DefaultDiffers /\ applied[1].fname /\ ~opts.dry_run)
              => (applied[1].def_ops # << >> \/ applied[1].ret = << >>)
        /\ ~DefaultDiffers => applied[1].def_ops = << >>
        /\ applied[1].ret # << >> => applied[1].ret = <<-1>>

(* C15 witness: sys_acl_set_file fails for the access ACL of a         *)
(* directory and then succeeds for its default ACL: the result is -1.  *)
C15_Witness ==
    /\ AccessFailed
    /\ applied[1].acc_ops[Len(applied[1].acc_ops)].op = "sys_acl_set_file"
    /\ ~applied[1].acc_ops[Len(applied[1].acc_ops)].ok
    /\ DefaultDiffers
    /\ applied[1].def_ops # << >>
    /\ applied[1].def_ops[Len(applied[1].def_ops)].op = "sys_acl_set_file"
    /\ applied[1].def_ops[Len(applied[1].def_ops)].ok
    /\ applied[1].default_after[applied[1].file.defacl + 1].sacl.st = "live"
    /\ applied[1].ret = <<-1>>

(* ------------------------------------------------------------------ *)
(* The life of the list entries                                        *)
(*                                                                     *)
(* Every operation on the lists: send_acl on the sending side and      *)
(* receive_acl, cache_acl, match_acl_ids (the single pass made without *)
(* incremental recursion) and set_acl on the receiving side.           *)
(* ------------------------------------------------------------------ *)
MatchAclIds ==
    /\ r_status = "run"
    /\ ~opts.inc_recurse
    /\ id_passes < MaxIdPasses
    /\ r_access' = match_racl_ids(r_access)
    /\ r_default' = match_racl_ids(r_default)
    /\ id_passes' = id_passes + 1
    /\ UNCHANGED <<opts, eq_call, sender_vars, wire, flist, files, r_match, r_status, r_calls,
                   cached, applied>>

LifeOptionSets == { Options(FALSE, TRUE, FALSE), Options(TRUE, TRUE, FALSE) }

InitLife ==
    /\ opts \in LifeOptionSets
    /\ InitLists
    /\ eq_call = << >>

LifeInputs ==
    { Statx(ModeFile, <<AclBoth>>, << >>),
      Statx(ModeDir, <<AclUser>>, <<AclBoth>>) }

LifeDestInputs(mode) ==
    IF S_ISDIR(mode)
    THEN { Statx(ModeDir, <<AclPlain>>, << >>), Statx(ModeDir, <<AclUser>>, <<AclBoth>>) }
    ELSE { Statx(ModeFile, <<AclPlain>>, << >>) }

NextLife ==
    \/ \E sxp \in LifeInputs : SendAcl(sxp, MaxLifeFiles)
    \/ ReceiveAcl
    \/ Len(cached) < MaxLifeCaches /\ \E sxp \in LifeInputs : CacheAcl(sxp)
    \/ MatchAclIds
    \/ \E k \in 1..Len(files) :
          \E sxp \in LifeDestInputs(files[k].mode) : SetAcl(k, TRUE, sxp)

SpecLife == InitLife /\ [][NextLife]_vars

(* the rsync_acl values of a list whose items take sz units *)
ListValues(list, sz) == [i \in 1..Len(list) |-> ItemRacl(list[i], sz)]

(* the entries of the list before the step are still there, at the     *)
(* same indices and with the same values                               *)
EntriesKept(before, after) ==
    /\ Len(after) >= Len(before)
    /\ \A i \in 1..Len(before) : after[i] = before[i]

(* the same but for the ids of the named entries, which are either all *)
(* as before or all converted by match_uid or match_gid                *)
EntriesKeptButIds(before, after) ==
    /\ Len(after) >= Len(before)
    /\ \A i \in 1..Len(before) :
          /\ [after[i] EXCEPT !.names = << >>] = [before[i] EXCEPT !.names = << >>]
          /\ Len(after[i].names) = Len(before[i].names)
          /\ \A j \in 1..Len(before[i].names) :
                /\ after[i].names[j].access = before[i].names[j].access
                /\ after[i].names[j].id =
                      IF id_passes' = id_passes THEN before[i].names[j].id
                      ELSE IF IsUser(before[i].names[j].access)
                      THEN match_uid(before[i].names[j].id)
                      ELSE match_gid(before[i].names[j].id)

(* C16 as stated: an entry of a list is never removed or moved and its *)
(* value, the ids of its named entries included, never changes.        *)
C16_EntriesImmutable ==
    [][ /\ EntriesKept(ListValues(s_access, SizeofRsyncAcl), ListValues(s_access', SizeofRsyncAcl))
        /\ EntriesKept(ListValues(s_default, SizeofRsyncAcl), ListValues(s_default', SizeofRsyncAcl))
        /\ EntriesKept(ListValues(r_access, SizeofAclDuo), ListValues(r_access', SizeofAclDuo))
        /\ EntriesKept(ListValues(r_default, SizeofAclDuo), ListValues(r_default', SizeofAclDuo))
      ]_vars

(* C16: an entry of a list is never removed or moved, and its four     *)
(* slots and the number, order and access bits of its named entries    *)
(* never change; the ids of its named entries change only in           *)
(* match_acl_ids, which replaces each by match_uid or match_gid of it  *)
(* in the entries of both receiving lists.                             *)
C16_EntriesStable ==
    [][ /\ EntriesKept(ListValues(s_access, SizeofRsyncAcl), ListValues(s_access', SizeofRsyncAcl))
        /\ EntriesKept(ListValues(s_default, SizeofRsyncAcl), ListValues(s_default', SizeofRsyncAcl))
        /\ EntriesKeptButIds(ListValues(r_access, SizeofAclDuo),
                             ListValues(r_access', SizeofAclDuo))
        /\ EntriesKeptButIds(ListValues(r_default, SizeofAclDuo),
                             ListValues(r_default', SizeofAclDuo))
      ]_vars

(* C16 witness: after match_acl_ids converted the ids of a received    *)
(* access ACL with a user and a group entry, set_acl built its handle  *)
(* and wrote it.                                                       *)
C16_Witness ==
    /\ id_passes = 1
    /\ applied # << >>
    /\ \E i \in 1..Len(r_access) :
          /\ r_access[i].sacl.st = "live"
          /\ Len(r_access[i].racl.names) = 2
          /\ r_access[i].racl.names[1].id = match_uid(1)
          /\ r_access[i].racl.names[2].id = match_gid(2)
          /\ applied[1].access_before[i].racl = r_access[i].racl
          /\ applied[1].access_before[i].sacl.st = "NULL"

(* a cache_rsync_acl call with a NULL candidate: it returned -1 and    *)
(* the list after it is the list before it                             *)
NullCall(c) == c.val = << >> => (c.ndx = -1 /\ c.after = c.before /\ c.left = << >>)

(* C17: cache_rsync_acl with no candidate.  A cache_acl step whose     *)
(* sxp->acc_acl (sxp->def_acl for a directory) is NULL gets the index  *)
(* -1 for that type and leaves the list of that type, its length and   *)
(* the lookup cursor of that type as they were.                        *)
C17_NullCandidate ==
    [][ Len(cached') = Len(cached) + 1 =>
          /\ cached'[Len(cached')].acc.val = << >> =>
                /\ NullCall(cached'[Len(cached')].acc)
                /\ r_access' = r_access
                /\ r_match'.access = r_match.access
          /\ (cached'[Len(cached')].def # << >> /\ cached'[Len(cached')].def[1].val = << >>) =>
                /\ NullCall(cached'[Len(cached')].def[1])
                /\ r_default' = r_default
                /\ r_match'.default = r_match.default
      ]_vars

(* C17 witness: cache_acl of a directory with no default ACL, made     *)
(* when the default list has an entry and its cursor is set: the index *)
(* is -1 and the list is as before.                                    *)
C17_Witness ==
    /\ cached # << >>
    /\ cached[Len(cached)].def # << >>
    /\ cached[Len(cached)].def[1].val = << >>
    /\ cached[Len(cached)].def[1].ndx = -1
    /\ cached[Len(cached)].def[1].before # << >>
    /\ r_default = cached[Len(cached)].def[1].before
    /\ r_match.default >= 0

(* the last set_acl only compared: fname NULL, or dry_run set *)
CheckOnly == applied # << >> /\ (~applied[1].fname \/ opts.dry_run)

(* such a call makes no native call and leaves both lists, the handles *)
(* in them and sxp->st.st_mode as they were                            *)
CheckOnlyFrame ==
    /\ applied[1].acc_ops = << >> /\ applied[1].def_ops = << >>
    /\ applied[1].access_after = applied[1].access_before
    /\ applied[1].default_after = applied[1].default_before
    /\ applied[1].st_mode = applied[1].sxp.st_mode
    /\ r_status = "run"

(* C18 as stated: set_acl with fname NULL or dry_run set changes       *)
(* nothing and returns 1 or 0, never -1.                               *)
C18_CheckOnlyNeverFails ==
    CheckOnly => (CheckOnlyFrame /\ applied[1].ret \in { <<0>>, <<1>> })

(* C18: set_acl with fname NULL or dry_run set makes no native call    *)
(* and changes neither list nor sxp->st.st_mode; it returns -1 when    *)
(* dry_run is not set and read_only or list_only is, and otherwise 0   *)
(* when a cached ACL of the file differs from the destination's and 1  *)
(* when none does.                                                     *)
C18_CheckOnly ==
    CheckOnly =>
        /\ CheckOnlyFrame
        /\ applied[1].ret =
              IF ~opts.dry_run /\ (opts.read_only \/ opts.list_only) THEN <<-1>>
              ELSE IF AccessDiffers \/ DefaultDiffers THEN <<0>>
              ELSE <<1>>

(* C18 witness: in a run that writes, set_acl with fname NULL for a    *)
(* file whose cached access ACL differs from the one on disk: the      *)
(* result is 0 and the handle of the cached entry is still NULL.       *)
C18_Witness ==
    /\ CheckOnly
    /\ ~applied[1].fname
    /\ ~opts.dry_run /\ ~opts.read_only /\ ~opts.list_only
    /\ AccessDiffers
    /\ applied[1].access_after[applied[1].file.acl + 1].sacl.st = "NULL"
    /\ applied[1].ret = <<0>>

(* ------------------------------------------------------------------ *)
(* rsync_acl_strip_perms and rsync_acl_fake_perms                      *)
(*                                                                     *)
(* eq_call starts as << [v |-> v] >> for an ACL v and gets in turn     *)
(* rsync_acl_strip_perms(v), then for a v with user_obj, group_obj and *)
(* other_obj present rsync_acl_fake_perms of that for the mode         *)
(* rsync_acl_get_perms(v), and the result of rsync_acl_equal_enough    *)
(* of v and the rebuilt ACL for that mode.                             *)
(* ------------------------------------------------------------------ *)
StripAcls ==
    { Racl(u, g, k, o, n) :
        u \in {NO_ENTRY, 7, 6}, g \in {NO_ENTRY, 5, 7, 0}, k \in {NO_ENTRY, 5, 7},
        o \in {NO_ENTRY, 5, 0}, n \in {NamesNone, NamesUser, NamesBoth} }

InitStrip ==
    /\ opts \in { Options(FALSE, TRUE, FALSE) }
    /\ InitLists
    /\ \E v \in StripAcls : eq_call = << [v |-> v] >>

(* v has the three permission slots rsync_acl_get_perms reads *)
IsFull(v) == v.user_obj # NO_ENTRY /\ v.group_obj # NO_ENTRY /\ v.other_obj # NO_ENTRY

StripPerms ==
    /\ Len(eq_call) = 1
    /\ eq_call' = Append(eq_call, rsync_acl_strip_perms(eq_call[1].v))
    /\ UNCHANGED <<opts, sender_vars, receiver_vars, wire, flist>>

FakePerms ==
    /\ Len(eq_call) = 2
    /\ IsFull(eq_call[1].v)
    /\ eq_call' = Append(eq_call,
                         rsync_acl_fake_perms(eq_call[2], rsync_acl_get_perms(eq_call[1].v)))
    /\ UNCHANGED <<opts, sender_vars, receiver_vars, wire, flist>>

CompareRebuilt ==
    /\ Len(eq_call) = 3
    /\ eq_call' = Append(eq_call,
                         rsync_acl_equal_enough(eq_call[1].v, eq_call[3],
                                                rsync_acl_get_perms(eq_call[1].v)))
    /\ UNCHANGED <<opts, sender_vars, receiver_vars, wire, flist>>

NextStrip == StripPerms \/ FakePerms \/ CompareRebuilt

SpecStrip == InitStrip /\ [][NextStrip]_vars

(* C19 as stated: rsync_acl_strip_perms sets user_obj and other_obj to *)
(* absent, sets group_obj to absent when there is no mask, clears a    *)
(* mask only when it equals group_obj and keeps one that differs, and  *)
(* leaves the named entries alone.                                     *)
C19_StripKeepsDifferingMask ==
    Len(eq_call) >= 2 =>
        /\ eq_call[2].user_obj = NO_ENTRY
        /\ eq_call[2].other_obj = NO_ENTRY
        /\ eq_call[1].v.mask_obj = NO_ENTRY => eq_call[2].group_obj = NO_ENTRY
        /\ eq_call[1].v.mask_obj # NO_ENTRY =>
              eq_call[2].mask_obj = IF eq_call[1].v.mask_obj = eq_call[1].v.group_obj
                                    THEN NO_ENTRY ELSE eq_call[1].v.mask_obj
        /\ eq_call[2].names = eq_call[1].v.names

(* C19: rsync_acl_strip_perms sets user_obj, mask_obj and other_obj to *)
(* absent in every case; it sets group_obj to absent when there is no  *)
(* mask or when group_obj equals the mask, and keeps a group_obj that  *)
(* differs from the mask; the named entries are left alone.            *)
C19_StripPerms ==
    Len(eq_call) >= 2 =>
        /\ eq_call[2].user_obj = NO_ENTRY
        /\ eq_call[2].other_obj = NO_ENTRY
        /\ eq_call[2].mask_obj = NO_ENTRY
        /\ eq_call[2].group_obj =
              IF eq_call[1].v.mask_obj = NO_ENTRY
                 \/ eq_call[1].v.group_obj = eq_call[1].v.mask_obj
              THEN NO_ENTRY ELSE eq_call[1].v.group_obj
        /\ eq_call[2].names = eq_call[1].v.names

(* C19 witness: an ACL with group r-x, mask rwx and a named user is    *)
(* stripped to the group entry and the named user, without the mask.   *)
C19_Witness ==
    /\ Len(eq_call) >= 2
    /\ eq_call[1].v = Racl(7, 5, 7, 5, NamesUser)
    /\ eq_call[2] = Racl(NO_ENTRY, 5, NO_ENTRY, NO_ENTRY, NamesUser)

(* C20 as stated: for every full ACL v, stripping v and faking the     *)
(* permission slots from rsync_acl_get_perms(v) gives an ACL that is   *)
(* equal enough to v for that mode.                                    *)
C20_StripFakeRebuilds ==
    Len(eq_call) = 4 => eq_call[4]

(* C20: the rebuilt ACL has no mask, so it is equal enough to v for    *)
(* that mode exactly when v has no mask.                               *)
C20_StripFakeRebuildsUnmasked ==
    Len(eq_call) = 4 =>
        /\ eq_call[3].mask_obj = NO_ENTRY
        /\ eq_call[4] <=> eq_call[1].v.mask_obj = NO_ENTRY

(* C20 witness: the ACL rwx r-x r-x without mask or named entries is   *)
(* rebuilt as it was and found equal enough.                           *)
C20_Witness ==
    /\ Len(eq_call) = 4
    /\ eq_call[1].v = Racl(7, 5, NO_ENTRY, 5, NamesNone)
    /\ eq_call[3] = eq_call[1].v
    /\ eq_call[4]

(* the indices (from 0) of the entries of a list of acl_duo items that *)
(* rsync_acl_equal finds equal to v                                    *)
EqualAt(list, v) == { i \in 0..(Len(list) - 1) : rsync_acl_equal(list[i + 1].racl, v) }

(* a cache_rsync_acl call with a candidate, on the list and with the   *)
(* list and cursor it left: an equal entry was there and its index was *)
(* returned and became the cursor, or none was there, the candidate    *)
(* was appended at the end and the cursor became unknown               *)
LookupDone(call, list_after, match_after) ==
    call.val # << >> =>
        IF EqualAt(call.before, call.val[1]) # {}
        THEN /\ call.ndx \in EqualAt(call.before, call.val[1])
             /\ match_after = call.ndx
             /\ list_after = call.before
        ELSE /\ call.ndx = Len(call.before)
             /\ match_after = -1
             /\ list_after = Append(call.before, [racl |-> call.val[1], sacl |-> NullSacl])

(* C21: cursor-biased lookup.  Every cache_acl step that returns gets, *)
(* for each candidate, the index of an entry equal to it exactly when  *)
(* the list holds one, with the cursor of the type set to that index   *)
(* and the list unchanged; otherwise the candidate is appended at the  *)
(* end of the list and the cursor becomes -1.                          *)
C21_CursorLookup ==
    [][ Len(cached') = Len(cached) + 1 =>
          /\ LookupDone(cached'[Len(cached')].acc, r_access', r_match'.access)
          /\ cached'[Len(cached')].def # << >> =>
                LookupDone(cached'[Len(cached')].def[1], r_default', r_match'.default)
      ]_vars

(* every entry of the list with a built handle still has one *)
HandleKept(before, after) ==
    \A i \in 1..Len(before) : before[i].sacl.st = "live" => after[i].sacl.st = "live"

(* pack_smb_acl was called in the block only for an entry whose handle *)
(* was NULL                                                            *)
PackedOnlyNull(ops, before, ndx) ==
    (\E j \in 1..Len(ops) : ops[j].op = "pack_smb_acl") => before[ndx + 1].sacl.st = "NULL"

(* C22: native handle built once.  In every step an entry that has a   *)
(* built handle keeps it, and a set_acl calls pack_smb_acl only for an *)
(* entry whose handle is NULL: an entry with a handle is applied with  *)
(* that handle and is never packed again.                              *)
C22_HandleBuiltOnce ==
    [][ /\ HandleKept(r_access, r_access')
        /\ HandleKept(r_default, r_default')
        /\ applied' # applied =>
              /\ PackedOnlyNull(applied'[1].acc_ops, r_access, applied'[1].file.acl)
              /\ PackedOnlyNull(applied'[1].def_ops, r_default, applied'[1].file.defacl)
      ]_vars

(* C22 witness: the second set_acl of a run writes the access ACL of   *)
(* an entry whose handle the first one built; it starts with           *)
(* change_sacl_perms on that handle and succeeds.                      *)
C22_Witness ==
    /\ applied # << >>
    /\ applied[1].seq = 2
    /\ applied[1].file.acl \in 0..(Len(applied[1].access_before) - 1)
    /\ applied[1].access_before[applied[1].file.acl + 1].sacl.st = "live"
    /\ applied[1].acc_ops # << >>
    /\ applied[1].acc_ops[1].op = "change_sacl_perms"
    /\ applied[1].acc_ops[Len(applied[1].acc_ops)] =
          Op("sys_acl_set_file", "access", TRUE,
             applied[1].access_after[applied[1].file.acl + 1].sacl)
    /\ applied[1].ret = <<0>>

(* no two entries of the list hold equal rsync_acl values *)
Distinct(values) ==
    \A i \in 1..Len(values) : \A j \in (i + 1)..Len(values) :
        ~rsync_acl_equal(values[i], values[j])

(* C23: one entry per distinct value.  In every state the access and   *)
(* default lists of the sending side and of the receiving side hold    *)
(* pairwise different rsync_acl values.                                *)
C23_DistinctEntries ==
    /\ Distinct(ListValues(s_access, SizeofRsyncAcl))
    /\ Distinct(ListValues(s_default, SizeofRsyncAcl))
    /\ Distinct(ListValues(r_access, SizeofAclDuo))
    /\ Distinct(ListValues(r_default, SizeofAclDuo))

(* the handle of every entry of the list is NULL or a live object *)
HandlesValid(list) ==
    \A i \in 1..Len(list) : list[i].sacl.st \in {"NULL", "live"}

(* C24: native handle validity.  In every state reached by set_acl     *)
(* calls, the sacl of every entry of the access and default lists is   *)
(* NULL or refers to an object that has not been freed.                *)
C24_HandlesValid ==
    /\ HandlesValid(r_access)
    /\ HandlesValid(r_default)

(* ------------------------------------------------------------------ *)
(* A transfer onto an identical destination                            *)
(*                                                                     *)
(* The sender reads a full access ACL v for each file, the mode of the *)
(* file carrying rsync_acl_get_perms(v); send_acl strips and sends it, *)
(* the receiver reads it, and set_acl is called for a destination for  *)
(* which get_acl read the same statx.  eq_call holds the statx values  *)
(* of the source files, in order.                                      *)
(* ------------------------------------------------------------------ *)
S_IFREG == 32768
S_IFDIR == 16384

(* full ACLs: without and with a mask, without and with named entries, *)
(* group_obj equal to the mask and different from it                   *)
NoopAcls ==
    { AclPlain, AclUser, Racl(7, 5, 5, 5, NamesUser), AclBoth,
      AclMaskOnly, Racl(7, 5, NO_ENTRY, 5, NamesUser) }

NoopInputs ==
    { Statx(S_IFREG + rsync_acl_get_perms(v), <<v>>, << >>) : v \in NoopAcls }
    \cup
    { Statx(S_IFDIR + rsync_acl_get_perms(v), <<v>>, <<empty_rsync_acl>>) : v \in NoopAcls }

InitNoop ==
    /\ opts \in OptionSets
    /\ InitLists
    /\ eq_call \in [1..MaxNoopFiles -> NoopInputs]

NoopSend == SendAcl(eq_call[Len(sent) + 1], Len(eq_call))

NoopSetAcl == \E k \in 1..Len(files), fname \in BOOLEAN : SetAcl(k, fname, eq_call[k])

NextNoop ==
    \/ NoopSend
    \/ ReceiveAcl
    \/ NoopSetAcl

SpecNoop == InitNoop /\ [][NextNoop]_vars

(* the set_acl call found the access ACL equal enough, made no native  *)
(* call and returned 1                                                 *)
NoopCall(c) ==
    /\ c.after_access = 1
    /\ c.acc_ops = << >>
    /\ c.def_ops = << >>
    /\ c.access_after = c.access_before
    /\ c.ret = <<1>>

NoopEntry(c) == c.access_before[c.file.acl + 1].racl

====
